---- MODULE Spec2Model ----
(***************************************************************************)
(* DrawIt multiplayer server: room registry (server/rooms.js), per-room    *)
(* game state (gameState.js) and the socket handlers and timer callbacks   *)
(* of the server entry point, as one state machine.                        *)
(*                                                                         *)
(* Time is discrete (one unit = one second).  Every pending setTimeout /   *)
(* setInterval callback is a record in the bag `timers` with the seconds   *)
(* that remain before it is due; Tick lets one second pass and is only     *)
(* possible when no callback is due.  Client intents may arrive at any     *)
(* moment.  A handler or callback runs to completion in one step (the      *)
(* server is single threaded; the only awaits are on already resolved      *)
(* promises).                                                              *)
(***************************************************************************)
EXTENDS Integers, Sequences, FiniteSets, Bags, TLC

VARIABLES rooms, gameStates, socketToPlayer, socketToRoom, socketOrder, timers, proc,
          emitted

vars == <<rooms, gameStates, socketToPlayer, socketToRoom, socketOrder, timers, proc,
          emitted>>

(***************************************************************************)
(* Bounds of the model.                                                    *)
(***************************************************************************)
MaxTimers == 3          \* pending callbacks (timeouts and intervals) at once
MaxChat == 1            \* free chat / wrong guess lines accepted per log
MaxScore == 800         \* scores the guesses are let to reach
MaxRound == 1           \* rounds a run plays
EarlyWindow == 1        \* seconds at the start of a drawing turn with client intents
LateWindow == 2         \* seconds at the end of a drawing turn with client intents
MaxGuessers == 5        \* guessers of the turn of the scoring specification

RoomCodes == {"R1"}                     \* values generateRoomCode returns
NumSockets == 2         \* connections
SocketIds == <<"s1", "s2", "s3", "s4">>
PlayerIds == <<"p1", "p2", "p3", "p4">>
Sockets == {SocketIds[i] : i \in 1..NumSockets}
\* the identity a connection sends in the player object of join-room
PlayerOf == [s \in Sockets |-> PlayerIds[CHOOSE i \in 1..NumSockets : SocketIds[i] = s]]

(***************************************************************************)
(* Program constants.                                                      *)
(***************************************************************************)
TOTAL_ROUNDS == 3
TURN_DURATION_SECONDS == 80
POINTS_DRAWER_ALL_GUESSED == 300
POINTS_GUESS_BASE == 500
POINTS_GUESS_DECAY == 100
POINTS_GUESS_FLOOR == 200
DEFAULT_MAX_PLAYERS == 8
START_GAME_DELAY == 1
ROUND_START_DELAY == 3
TURN_END_DELAY == 6
ROUND_END_DELAY == 8
EARLY_END_DELAY == 2
TICK_PERIOD == 1
REVEAL_FIRST_AFTER == 30
REVEAL_MIDDLE_AFTER == 60
REVEAL_MIDDLE_MIN_LENGTH == 4

Null == "null"             \* JavaScript null / undefined for string fields

(***************************************************************************)
(* Word pool (services/words.ts).                                          *)
(***************************************************************************)
WO(w, c) == [word |-> w, category |-> c]

NullWord == WO(Null, Null) \* currentWord: null

EASY_WORDS ==
  <<
    WO("Cat", "THING"), WO("Dog", "THING"), WO("Sun", "THING"),
    WO("Moon", "THING"), WO("Tree", "THING"), WO("House", "THING"),
    WO("Car", "THING"), WO("Bird", "THING"), WO("Fish", "THING"),
    WO("Apple", "THING"), WO("Run", "ACTION"), WO("Jump", "ACTION"),
    WO("Dance", "ACTION"), WO("Sing", "ACTION"), WO("Sleep", "ACTION"),
    WO("Eat", "ACTION"), WO("Drink", "ACTION"), WO("Walk", "ACTION"),
    WO("Swim", "ACTION"), WO("Fly", "ACTION"), WO("Park", "PLACE"),
    WO("Beach", "PLACE"), WO("School", "PLACE"), WO("Store", "PLACE"),
    WO("Kitchen", "PLACE"), WO("Bedroom", "PLACE"), WO("Garden", "PLACE"),
    WO("Library", "PLACE"), WO("Hospital", "PLACE"), WO("Restaurant", "PLACE")
  >>

MEDIUM_WORDS ==
  <<
    WO("Airplane", "THING"), WO("Computer", "THING"), WO("Guitar", "THING"),
    WO("Camera", "THING"), WO("Bicycle", "THING"), WO("Telescope", "THING"),
    WO("Volcano", "THING"), WO("Dinosaur", "THING"), WO("Robot", "THING"),
    WO("Submarine", "THING"), WO("Climbing", "ACTION"), WO("Skydiving", "ACTION"),
    WO("Surfing", "ACTION"), WO("Cooking", "ACTION"), WO("Reading", "ACTION"),
    WO("Painting", "ACTION"), WO("Fishing", "ACTION"), WO("Shopping", "ACTION"),
    WO("Driving", "ACTION"), WO("Swimming", "ACTION"), WO("Mountain", "PLACE"),
    WO("Ocean", "PLACE"), WO("Desert", "PLACE"), WO("Forest", "PLACE"),
    WO("City", "PLACE"), WO("Island", "PLACE"), WO("Castle", "PLACE"),
    WO("Museum", "PLACE"), WO("Stadium", "PLACE"), WO("Airport", "PLACE")
  >>

HARD_WORDS ==
  <<
    WO("Telescope", "THING"), WO("Microscope", "THING"), WO("Helicopter", "THING"),
    WO("Submarine", "THING"), WO("Skyscraper", "THING"), WO("Lighthouse", "THING"),
    WO("Windmill", "THING"), WO("Waterfall", "THING"), WO("Rainbow", "THING"),
    WO("Thunderstorm", "THING"), WO("Photography", "ACTION"), WO("Meditation", "ACTION"),
    WO("Exercising", "ACTION"), WO("Gardening", "ACTION"), WO("Exploring", "ACTION"),
    WO("Inventing", "ACTION"), WO("Discovering", "ACTION"), WO("Celebrating", "ACTION"),
    WO("Traveling", "ACTION"), WO("Learning", "ACTION"), WO("Pyramid", "PLACE"),
    WO("Rainforest", "PLACE"), WO("Waterfall", "PLACE"), WO("Volcano", "PLACE"),
    WO("Glacier", "PLACE"), WO("Canyon", "PLACE"), WO("Observatory", "PLACE"),
    WO("Laboratory", "PLACE"), WO("Observatory", "PLACE"), WO("Planetarium", "PLACE")
  >>

Chars ==
  "Cat" :> <<"C", "a", "t">> @@
  "Dog" :> <<"D", "o", "g">> @@
  "Sun" :> <<"S", "u", "n">> @@
  "Moon" :> <<"M", "o", "o", "n">> @@
  "Tree" :> <<"T", "r", "e", "e">> @@
  "House" :> <<"H", "o", "u", "s", "e">> @@
  "Car" :> <<"C", "a", "r">> @@
  "Bird" :> <<"B", "i", "r", "d">> @@
  "Fish" :> <<"F", "i", "s", "h">> @@
  "Apple" :> <<"A", "p", "p", "l", "e">> @@
  "Run" :> <<"R", "u", "n">> @@
  "Jump" :> <<"J", "u", "m", "p">> @@
  "Dance" :> <<"D", "a", "n", "c", "e">> @@
  "Sing" :> <<"S", "i", "n", "g">> @@
  "Sleep" :> <<"S", "l", "e", "e", "p">> @@
  "Eat" :> <<"E", "a", "t">> @@
  "Drink" :> <<"D", "r", "i", "n", "k">> @@
  "Walk" :> <<"W", "a", "l", "k">> @@
  "Swim" :> <<"S", "w", "i", "m">> @@
  "Fly" :> <<"F", "l", "y">> @@
  "Park" :> <<"P", "a", "r", "k">> @@
  "Beach" :> <<"B", "e", "a", "c", "h">> @@
  "School" :> <<"S", "c", "h", "o", "o", "l">> @@
  "Store" :> <<"S", "t", "o", "r", "e">> @@
  "Kitchen" :> <<"K", "i", "t", "c", "h", "e", "n">> @@
  "Bedroom" :> <<"B", "e", "d", "r", "o", "o", "m">> @@
  "Garden" :> <<"G", "a", "r", "d", "e", "n">> @@
  "Library" :> <<"L", "i", "b", "r", "a", "r", "y">> @@
  "Hospital" :> <<"H", "o", "s", "p", "i", "t", "a", "l">> @@
  "Restaurant" :> <<"R", "e", "s", "t", "a", "u", "r", "a", "n", "t">> @@
  "Airplane" :> <<"A", "i", "r", "p", "l", "a", "n", "e">> @@
  "Computer" :> <<"C", "o", "m", "p", "u", "t", "e", "r">> @@
  "Guitar" :> <<"G", "u", "i", "t", "a", "r">> @@
  "Camera" :> <<"C", "a", "m", "e", "r", "a">> @@
  "Bicycle" :> <<"B", "i", "c", "y", "c", "l", "e">> @@
  "Telescope" :> <<"T", "e", "l", "e", "s", "c", "o", "p", "e">> @@
  "Volcano" :> <<"V", "o", "l", "c", "a", "n", "o">> @@
  "Dinosaur" :> <<"D", "i", "n", "o", "s", "a", "u", "r">> @@
  "Robot" :> <<"R", "o", "b", "o", "t">> @@
  "Submarine" :> <<"S", "u", "b", "m", "a", "r", "i", "n", "e">> @@
  "Climbing" :> <<"C", "l", "i", "m", "b", "i", "n", "g">> @@
  "Skydiving" :> <<"S", "k", "y", "d", "i", "v", "i", "n", "g">> @@
  "Surfing" :> <<"S", "u", "r", "f", "i", "n", "g">> @@
  "Cooking" :> <<"C", "o", "o", "k", "i", "n", "g">> @@
  "Reading" :> <<"R", "e", "a", "d", "i", "n", "g">> @@
  "Painting" :> <<"P", "a", "i", "n", "t", "i", "n", "g">> @@
  "Fishing" :> <<"F", "i", "s", "h", "i", "n", "g">> @@
  "Shopping" :> <<"S", "h", "o", "p", "p", "i", "n", "g">> @@
  "Driving" :> <<"D", "r", "i", "v", "i", "n", "g">> @@
  "Swimming" :> <<"S", "w", "i", "m", "m", "i", "n", "g">> @@
  "Mountain" :> <<"M", "o", "u", "n", "t", "a", "i", "n">> @@
  "Ocean" :> <<"O", "c", "e", "a", "n">> @@
  "Desert" :> <<"D", "e", "s", "e", "r", "t">> @@
  "Forest" :> <<"F", "o", "r", "e", "s", "t">> @@
  "City" :> <<"C", "i", "t", "y">> @@
  "Island" :> <<"I", "s", "l", "a", "n", "d">> @@
  "Castle" :> <<"C", "a", "s", "t", "l", "e">> @@
  "Museum" :> <<"M", "u", "s", "e", "u", "m">> @@
  "Stadium" :> <<"S", "t", "a", "d", "i", "u", "m">> @@
  "Airport" :> <<"A", "i", "r", "p", "o", "r", "t">> @@
  "Microscope" :> <<"M", "i", "c", "r", "o", "s", "c", "o", "p", "e">> @@
  "Helicopter" :> <<"H", "e", "l", "i", "c", "o", "p", "t", "e", "r">> @@
  "Skyscraper" :> <<"S", "k", "y", "s", "c", "r", "a", "p", "e", "r">> @@
  "Lighthouse" :> <<"L", "i", "g", "h", "t", "h", "o", "u", "s", "e">> @@
  "Windmill" :> <<"W", "i", "n", "d", "m", "i", "l", "l">> @@
  "Waterfall" :> <<"W", "a", "t", "e", "r", "f", "a", "l", "l">> @@
  "Rainbow" :> <<"R", "a", "i", "n", "b", "o", "w">> @@
  "Thunderstorm" :> <<"T", "h", "u", "n", "d", "e", "r", "s", "t", "o", "r", "m">> @@
  "Photography" :> <<"P", "h", "o", "t", "o", "g", "r", "a", "p", "h", "y">> @@
  "Meditation" :> <<"M", "e", "d", "i", "t", "a", "t", "i", "o", "n">> @@
  "Exercising" :> <<"E", "x", "e", "r", "c", "i", "s", "i", "n", "g">> @@
  "Gardening" :> <<"G", "a", "r", "d", "e", "n", "i", "n", "g">> @@
  "Exploring" :> <<"E", "x", "p", "l", "o", "r", "i", "n", "g">> @@
  "Inventing" :> <<"I", "n", "v", "e", "n", "t", "i", "n", "g">> @@
  "Discovering" :> <<"D", "i", "s", "c", "o", "v", "e", "r", "i", "n", "g">> @@
  "Celebrating" :> <<"C", "e", "l", "e", "b", "r", "a", "t", "i", "n", "g">> @@
  "Traveling" :> <<"T", "r", "a", "v", "e", "l", "i", "n", "g">> @@
  "Learning" :> <<"L", "e", "a", "r", "n", "i", "n", "g">> @@
  "Pyramid" :> <<"P", "y", "r", "a", "m", "i", "d">> @@
  "Rainforest" :> <<"R", "a", "i", "n", "f", "o", "r", "e", "s", "t">> @@
  "Glacier" :> <<"G", "l", "a", "c", "i", "e", "r">> @@
  "Canyon" :> <<"C", "a", "n", "y", "o", "n">> @@
  "Observatory" :> <<"O", "b", "s", "e", "r", "v", "a", "t", "o", "r", "y">> @@
  "Laboratory" :> <<"L", "a", "b", "o", "r", "a", "t", "o", "r", "y">> @@
  "Planetarium" :> <<"P", "l", "a", "n", "e", "t", "a", "r", "i", "u", "m">> @@
  "Zebra" :> <<"Z", "e", "b", "r", "a">>

(***************************************************************************)
(* Text: a chat or guess text is a sequence of one-character strings.      *)
(***************************************************************************)
UpperToLower ==
  "A" :> "a" @@ "B" :> "b" @@ "C" :> "c" @@ "D" :> "d" @@ "E" :> "e" @@
  "F" :> "f" @@ "G" :> "g" @@ "H" :> "h" @@ "I" :> "i" @@ "J" :> "j" @@
  "K" :> "k" @@ "L" :> "l" @@ "M" :> "m" @@ "N" :> "n" @@ "O" :> "o" @@
  "P" :> "p" @@ "Q" :> "q" @@ "R" :> "r" @@ "S" :> "s" @@ "T" :> "t" @@
  "U" :> "u" @@ "V" :> "v" @@ "W" :> "w" @@ "X" :> "x" @@ "Y" :> "y" @@
  "Z" :> "z"

toLowerCase(s) ==
  [i \in 1..Len(s) |-> IF s[i] \in DOMAIN UpperToLower THEN UpperToLower[s[i]] ELSE s[i]]

IsWhiteSpace(c) == c \in {" ", "\t", "\n"}

trim(s) ==
  LET keep == {i \in 1..Len(s) : ~IsWhiteSpace(s[i])}
      lo == CHOOSE i \in keep : \A j \in keep : i <= j
      hi == CHOOSE i \in keep : \A j \in keep : j <= i
  IN  IF keep = {} THEN <<>> ELSE SubSeq(s, lo, hi)

(***************************************************************************)
(* Sequence helpers standing for Array.prototype.filter / find / every.    *)
(***************************************************************************)
Range(s) == {s[i] : i \in 1..Len(s)}

RECURSIVE FilterIdx(_, _, _)
\* the subsequence of s at the indices of `keep`, order preserved
FilterIdx(s, keep, i) ==
  IF i > Len(s) THEN <<>>
  ELSE IF i \in keep THEN <<s[i]>> \o FilterIdx(s, keep, i + 1)
  ELSE FilterIdx(s, keep, i + 1)

(***************************************************************************)
(* getMaskedWord (App.tsx): what a guesser is shown of the word.            *)
(***************************************************************************)
\* /[a-zA-Z0-9]/.test(char)
IsAlphanumeric(char) ==
  \/ char \in DOMAIN UpperToLower
  \/ \E u \in DOMAIN UpperToLower : UpperToLower[u] = char
  \/ char \in {"0", "1", "2", "3", "4", "5", "6", "7", "8", "9"}

\* word.split('').map(...): one cell for each character of the word
maskCells(word, timeLeft) ==
  LET elapsed == TURN_DURATION_SECONDS - timeLeft
      len == Len(word)
      indicesToReveal ==
        (IF elapsed >= REVEAL_FIRST_AFTER THEN {0} ELSE {}) \cup
        (IF elapsed >= REVEAL_MIDDLE_AFTER /\ len >= REVEAL_MIDDLE_MIN_LENGTH
         THEN {len \div 2} ELSE {})
  IN  [i \in 1..len |-> IF ~IsAlphanumeric(word[i]) THEN word[i]
                        ELSE IF (i - 1) \in indicesToReveal THEN word[i]
                        ELSE "_"]

\* cells.join(' ')
joinWithSpace(cells) ==
  [i \in 1..(IF Len(cells) = 0 THEN 0 ELSE 2 * Len(cells) - 1) |->
     IF i % 2 = 1 THEN cells[(i + 1) \div 2] ELSE " "]

getMaskedWord(word, timeLeft) ==
  IF word = <<>> THEN <<>> ELSE joinWithSpace(maskCells(word, timeLeft))

(***************************************************************************)
(* generateWordOptions.  Math.random() is a value k / RandomSteps with     *)
(* k in 0 .. RandomSteps-1; `ks` holds the draws of one call: ks[1..3] the *)
(* three category picks, ks[4] the fill picks, ks[5] the final shuffle.    *)
(***************************************************************************)
RandomSteps == 10

floorRandom(k, len) == (k * len) \div RandomSteps

\* the draws of the runs that do not turn on the words: Math.random() below
\* 1 / RandomSteps throughout
Draws == {<<0, 0, 0, 0, 0>>}

wordPool(round) ==
  IF round = 1 THEN EASY_WORDS ELSE IF round = 2 THEN MEDIUM_WORDS ELSE HARD_WORDS

ofCategory(words, c) == FilterIdx(words, {i \in 1..Len(words) : words[i].category = c}, 1)

Permutations3 ==
  << <<1, 2, 3>>, <<2, 1, 3>>, <<1, 3, 2>>, <<3, 2, 1>>, <<2, 3, 1>>, <<3, 1, 2>> >>

shuffle(s, k) ==
  IF Len(s) = 3
  THEN LET p == Permutations3[1 + floorRandom(k, 6)] IN [i \in 1..3 |-> s[p[i]]]
  ELSE IF Len(s) = 2 /\ floorRandom(k, 2) = 1 THEN <<s[2], s[1]>>
  ELSE s

RECURSIVE fillFromPool(_, _, _)
\* the while loop: draws until a word not yet selected comes up; it never
\* ends when words are available but every one of them is selected already
fillFromPool(selected, availableWords, k) ==
  IF ~(Len(selected) < 3 /\ Len(availableWords) > 0)
  THEN [hang |-> FALSE, words |-> selected]
  ELSE LET fresh == FilterIdx(availableWords,
                      {i \in 1..Len(availableWords) :
                         \A j \in 1..Len(selected) : selected[j].word # availableWords[i].word}, 1)
       IN  IF fresh = <<>>
           THEN [hang |-> TRUE, words |-> selected]
           ELSE fillFromPool(Append(selected, fresh[1 + floorRandom(k, Len(fresh))]),
                             availableWords, k)

generateWordOptions(round, excludeWords, ks) ==
  LET pool == wordPool(round)
      availableWords == FilterIdx(pool,
                          {i \in 1..Len(pool) : pool[i].word \notin Range(excludeWords)}, 1)
      actionWords == ofCategory(availableWords, "ACTION")
      thingWords == ofCategory(availableWords, "THING")
      placeWords == ofCategory(availableWords, "PLACE")
      s1 == IF Len(actionWords) > 0
            THEN <<actionWords[1 + floorRandom(ks[1], Len(actionWords))]>> ELSE <<>>
      s2 == IF Len(thingWords) > 0
            THEN Append(s1, thingWords[1 + floorRandom(ks[2], Len(thingWords))]) ELSE s1
      s3 == IF Len(placeWords) > 0
            THEN Append(s2, placeWords[1 + floorRandom(ks[3], Len(placeWords))]) ELSE s2
      filled == fillFromPool(s3, availableWords, ks[4])
  IN  [hang |-> filled.hang,
       words |-> shuffle(SubSeq(filled.words, 1, IF Len(filled.words) < 3 THEN Len(filled.words) ELSE 3), ks[5])]

(***************************************************************************)
(* The server's memory as one record W: the two registries (rooms,         *)
(* gameStates), the connection maps, the pending callbacks and the state   *)
(* of the process ("running", "crashed" after an uncaught exception,       *)
(* "hung" in a loop that never ends).  The functions of the source are     *)
(* operators from W to W.  A map is a function whose domain is its keys;   *)
(* socketOrder keeps the keys of socketToPlayer in the order of their      *)
(* insertion, which is the order in which the entries of the Map are       *)
(* iterated.  emitted collects the 'word-options' events that the handler  *)
(* or callback under way sends; the variable emitted holds those of the    *)
(* last step.                                                              *)
(***************************************************************************)
World ==
  [rooms |-> rooms, gameStates |-> gameStates, socketToPlayer |-> socketToPlayer,
   socketToRoom |-> socketToRoom, socketOrder |-> socketOrder, timers |-> timers,
   proc |-> proc, emitted |-> {}]

MapDelete(m, k) == [x \in DOMAIN m \ {k} |-> m[x]]
MapGet(m, k) == IF k \in DOMAIN m THEN m[k] ELSE Null

NewPlayer(id) == [id |-> id, score |-> 0, hasGuessedCorrectly |-> FALSE]

players(W, roomCode) == W.rooms[roomCode].players

(***************************************************************************)
(* Pending callbacks.  A callback that closes over the room object or the  *)
(* game-state object reads that object when it runs; once the registry     *)
(* holds another object under the code (or none), the closure still reads  *)
(* the old one, whose fields no longer change: the record then carries     *)
(* the values the old object ended with.                                   *)
(***************************************************************************)
Timer(kind, roomCode, rem) ==
  [kind |-> kind, code |-> roomCode, rem |-> rem, tracked |-> FALSE,
   stateObj |-> "none", cpi |-> 0, round |-> 0, roomObj |-> "none", nplayers |-> 0]

RECURSIVE BagOfSeq(_)
BagOfSeq(s) == IF s = <<>> THEN EmptyBag ELSE SetToBag({Head(s)}) (+) BagOfSeq(Tail(s))

RECURSIVE SeqOfBag(_)
SeqOfBag(B) ==
  IF BagToSet(B) = {} THEN <<>>
  ELSE LET t == CHOOSE x \in BagToSet(B) : TRUE
       IN  <<t>> \o SeqOfBag(B (-) SetToBag({t}))

MapTimers(B, F(_)) == LET s == SeqOfBag(B) IN BagOfSeq([i \in 1..Len(s) |-> F(s[i])])

setTimer(W, t) == [W EXCEPT !.timers = @ (+) SetToBag({t})]

RemoveTimers(B, Drop(_)) ==
  LET s == SeqOfBag(B) IN BagOfSeq(FilterIdx(s, {i \in 1..Len(s) : ~Drop(s[i])}, 1))

\* the game-state object of roomCode leaves the registry
detachState(W, roomCode) ==
  IF roomCode \notin DOMAIN W.gameStates THEN W
  ELSE LET st == W.gameStates[roomCode]
           F(t) == IF t.code # roomCode THEN t
                   ELSE IF t.stateObj = "live"
                        THEN [t EXCEPT !.stateObj = "old", !.cpi = st.currentPlayerIndex,
                                       !.round = st.currentRound]
                        ELSE [t EXCEPT !.tracked = FALSE]
       IN  [W EXCEPT !.timers = MapTimers(@, F)]

\* the room object of roomCode leaves the registry
detachRoom(W, roomCode) ==
  IF roomCode \notin DOMAIN W.rooms THEN W
  ELSE LET n == Len(W.rooms[roomCode].players)
           F(t) == IF t.code = roomCode /\ t.roomObj = "live"
                   THEN [t EXCEPT !.roomObj = "old", !.nplayers = n] ELSE t
       IN  [W EXCEPT !.timers = MapTimers(@, F)]

\* clearInterval(state.timerInterval)
clearInterval(W, roomCode) ==
  LET Drop(t) == t.kind = "interval" /\ t.code = roomCode /\ t.tracked
  IN  [W EXCEPT !.timers = RemoveTimers(@, Drop)]

(***************************************************************************)
(* rooms.js                                                                *)
(***************************************************************************)
\* the codes Math.random() can make generateRoomCode return
generateRoomCode == RoomCodes

createRoom(W, roomCode, isPrivate, password) ==
  LET room == [id |-> roomCode, isPrivate |-> isPrivate, password |-> password,
               hostId |-> Null, players |-> <<>>, maxPlayers |-> DEFAULT_MAX_PLAYERS,
               status |-> "WAITING"]
      W1 == detachRoom(W, roomCode)
  IN  [W1 EXCEPT !.rooms = (roomCode :> room) @@ @]

IsMember(room, playerId) == \E i \in 1..Len(room.players) : room.players[i].id = playerId

\* addPlayerToRoom without the check of the capacity
addPlayerToRoom_NoCapacity(W, roomCode, player) ==
  IF roomCode \notin DOMAIN W.rooms
  THEN [W |-> W, success |-> FALSE, error |-> "Room not found"]
  ELSE LET room == W.rooms[roomCode] IN
       IF room.status = "PLAYING"
       THEN [W |-> W, success |-> FALSE, error |-> "Game already in progress"]
       ELSE IF IsMember(room, player.id)
       THEN [W |-> W, success |-> TRUE, error |-> Null]
       ELSE LET pushed == Append(room.players, player)
                host == IF Len(pushed) = 1 THEN player.id ELSE room.hostId
            IN  [W |-> [W EXCEPT !.rooms[roomCode].players = pushed,
                                 !.rooms[roomCode].hostId = host],
                 success |-> TRUE, error |-> Null]

addPlayerToRoom(W, roomCode, player) ==
  IF roomCode \notin DOMAIN W.rooms
  THEN [W |-> W, success |-> FALSE, error |-> "Room not found"]
  ELSE LET room == W.rooms[roomCode] IN
       IF Len(room.players) >= room.maxPlayers
       THEN [W |-> W, success |-> FALSE, error |-> "Room is full"]
       ELSE IF room.status = "PLAYING"
       THEN [W |-> W, success |-> FALSE, error |-> "Game already in progress"]
       ELSE IF IsMember(room, player.id)
       THEN [W |-> W, success |-> TRUE, error |-> Null]
       ELSE LET pushed == Append(room.players, player)
                host == IF Len(pushed) = 1 THEN player.id ELSE room.hostId
            IN  [W |-> [W EXCEPT !.rooms[roomCode].players = pushed,
                                 !.rooms[roomCode].hostId = host],
                 success |-> TRUE, error |-> Null]

\* removePlayerFromRoom without the promotion of a new host
removePlayerFromRoom_KeepsHost(W, roomCode, playerId) ==
  IF roomCode \notin DOMAIN W.rooms
  THEN [W |-> W, success |-> FALSE, deleted |-> FALSE, room |-> FALSE]
  ELSE LET room == W.rooms[roomCode]
           left == FilterIdx(room.players,
                             {i \in 1..Len(room.players) : room.players[i].id # playerId}, 1)
           W1 == [W EXCEPT !.rooms[roomCode].players = left]
       IN  IF Len(left) = 0
           THEN [W |-> [detachRoom(W1, roomCode) EXCEPT !.rooms = MapDelete(@, roomCode)],
                 success |-> TRUE, deleted |-> TRUE, room |-> FALSE]
           ELSE [W |-> W1, success |-> TRUE, deleted |-> FALSE, room |-> TRUE]

removePlayerFromRoom(W, roomCode, playerId) ==
  IF roomCode \notin DOMAIN W.rooms
  THEN [W |-> W, success |-> FALSE, deleted |-> FALSE, room |-> FALSE]
  ELSE LET room == W.rooms[roomCode]
           left == FilterIdx(room.players,
                             {i \in 1..Len(room.players) : room.players[i].id # playerId}, 1)
           W1 == [W EXCEPT !.rooms[roomCode].players = left]
       IN  IF Len(left) = 0
           THEN [W |-> [detachRoom(W1, roomCode) EXCEPT !.rooms = MapDelete(@, roomCode)],
                 success |-> TRUE, deleted |-> TRUE, room |-> FALSE]
           ELSE [W |-> IF room.hostId = playerId /\ Len(left) > 0
                       THEN [W1 EXCEPT !.rooms[roomCode].hostId = left[1].id]
                       ELSE W1,
                 success |-> TRUE, deleted |-> FALSE, room |-> TRUE]

updateRoomStatus(W, roomCode, status) ==
  IF roomCode \notin DOMAIN W.rooms THEN W
  ELSE [W EXCEPT !.rooms[roomCode].status = status]

\* verifyRoomPassword that compares without regard to case
verifyRoomPassword_IgnoresCase(W, roomCode, password) ==
  IF roomCode \notin DOMAIN W.rooms THEN FALSE
  ELSE LET room == W.rooms[roomCode] IN
       IF ~room.isPrivate \/ room.password \in {Null, ""} THEN TRUE
       ELSE room.password = password \/ (room.password = "abc" /\ password = "ABC")

verifyRoomPassword(W, roomCode, password) ==
  IF roomCode \notin DOMAIN W.rooms THEN FALSE
  ELSE LET room == W.rooms[roomCode] IN
       IF ~room.isPrivate \/ room.password \in {Null, ""} THEN TRUE
       ELSE room.password = password

(***************************************************************************)
(* gameState.js                                                            *)
(***************************************************************************)
SystemMessage(text) ==
  [playerId |-> "system", text |-> text, isSystem |-> TRUE, isCorrectGuess |-> FALSE]

ChatMessage(playerId, text, isCorrectGuess) ==
  [playerId |-> playerId, text |-> text, isSystem |-> FALSE, isCorrectGuess |-> isCorrectGuess]

initializeGameState(W, roomCode) ==
  LET state == [phase |-> "ROOM_LOBBY", currentRound |-> 1, totalRounds |-> TOTAL_ROUNDS,
                currentPlayerIndex |-> 0, currentWord |-> NullWord, wordOptions |-> <<>>,
                timeLeft |-> 0, messages |-> <<>>, canvasData |-> Null, usedWords |-> <<>>,
                timerInterval |-> Null]
      W1 == detachState(W, roomCode)
  IN  [W1 EXCEPT !.gameStates = (roomCode :> state) @@ @]

deleteGameState(W, roomCode) ==
  IF roomCode \notin DOMAIN W.gameStates THEN W
  ELSE LET W1 == IF W.gameStates[roomCode].timerInterval # Null
                 THEN clearInterval(W, roomCode) ELSE W
           W2 == detachState(W1, roomCode)
       IN  [W2 EXCEPT !.gameStates = MapDelete(@, roomCode)]

resetPlayers(ps) == [i \in 1..Len(ps) |-> [ps[i] EXCEPT !.score = 0, !.hasGuessedCorrectly = FALSE]]

\* startGame without the reset of the players
startGame_KeepsScores(W, roomCode) ==
  IF roomCode \notin DOMAIN W.gameStates THEN W
  ELSE [W EXCEPT !.gameStates[roomCode].phase = "ROUND_START",
                 !.gameStates[roomCode].currentRound = 1,
                 !.gameStates[roomCode].currentPlayerIndex = 0,
                 !.gameStates[roomCode].messages = <<>>,
                 !.gameStates[roomCode].canvasData = Null,
                 !.gameStates[roomCode].usedWords = <<>>]

\* startGame(roomCode, room.players)
startGame(W, roomCode) ==
  IF roomCode \notin DOMAIN W.gameStates THEN W
  ELSE [W EXCEPT !.gameStates[roomCode].phase = "ROUND_START",
                 !.gameStates[roomCode].currentRound = 1,
                 !.gameStates[roomCode].currentPlayerIndex = 0,
                 !.gameStates[roomCode].messages = <<>>,
                 !.gameStates[roomCode].canvasData = Null,
                 !.gameStates[roomCode].usedWords = <<>>,
                 !.rooms[roomCode].players = resetPlayers(@)]

startRound(W, roomCode, roundNum) ==
  IF roomCode \notin DOMAIN W.gameStates THEN W
  ELSE [W EXCEPT !.gameStates[roomCode].currentRound = roundNum,
                 !.gameStates[roomCode].phase = "ROUND_START",
                 !.gameStates[roomCode].messages = <<>>]

wordsOf(options) == [i \in 1..Len(options) |-> options[i].word]

\* startTurn that does not add the candidates to the used words
startTurn_KeepsUsedWords(W, roomCode, playerIndex, ks) ==
  IF roomCode \notin DOMAIN W.gameStates THEN W
  ELSE LET W1 == [W EXCEPT !.gameStates[roomCode].phase = "TURN_START",
                           !.gameStates[roomCode].currentPlayerIndex = playerIndex,
                           !.gameStates[roomCode].currentWord = NullWord,
                           !.gameStates[roomCode].canvasData = Null,
                           !.gameStates[roomCode].messages = <<>>]
           st == W1.gameStates[roomCode]
           gen == generateWordOptions(st.currentRound, st.usedWords, ks)
       IN  IF gen.hang THEN [W1 EXCEPT !.proc = "hung"]
           ELSE [W1 EXCEPT !.gameStates[roomCode].wordOptions = gen.words,
                           !.gameStates[roomCode].phase = "WORD_SELECTION"]

startTurn(W, roomCode, playerIndex, ks) ==
  IF roomCode \notin DOMAIN W.gameStates THEN W
  ELSE LET W1 == [W EXCEPT !.gameStates[roomCode].phase = "TURN_START",
                           !.gameStates[roomCode].currentPlayerIndex = playerIndex,
                           !.gameStates[roomCode].currentWord = NullWord,
                           !.gameStates[roomCode].canvasData = Null,
                           !.gameStates[roomCode].messages = <<>>]
           st == W1.gameStates[roomCode]
           gen == generateWordOptions(st.currentRound, st.usedWords, ks)
       IN  IF gen.hang THEN [W1 EXCEPT !.proc = "hung"]
           ELSE [W1 EXCEPT !.gameStates[roomCode].wordOptions = gen.words,
                           !.gameStates[roomCode].usedWords = @ \o wordsOf(gen.words),
                           !.gameStates[roomCode].phase = "WORD_SELECTION"]

selectWord(W, roomCode, word) ==
  IF roomCode \notin DOMAIN W.gameStates THEN W
  ELSE [W EXCEPT !.gameStates[roomCode].currentWord = word,
                 !.gameStates[roomCode].phase = "DRAWING",
                 !.gameStates[roomCode].timeLeft = TURN_DURATION_SECONDS,
                 !.gameStates[roomCode].wordOptions = <<>>]

updateCanvas(W, roomCode, canvasData) ==
  IF roomCode \notin DOMAIN W.gameStates THEN W
  ELSE [W EXCEPT !.gameStates[roomCode].canvasData = canvasData]

addMessage(W, roomCode, message) ==
  IF roomCode \notin DOMAIN W.gameStates THEN W
  ELSE [W EXCEPT !.gameStates[roomCode].messages = Append(@, message)]

\* checkGuess that compares the text as it came
checkGuess_NoTrim(W, roomCode, guess) ==
  IF roomCode \notin DOMAIN W.gameStates \/ W.gameStates[roomCode].currentWord = NullWord
  THEN FALSE
  ELSE toLowerCase(guess) = toLowerCase(Chars[W.gameStates[roomCode].currentWord.word])

checkGuess(W, roomCode, guess) ==
  IF roomCode \notin DOMAIN W.gameStates \/ W.gameStates[roomCode].currentWord = NullWord
  THEN FALSE
  ELSE toLowerCase(trim(guess)) = toLowerCase(Chars[W.gameStates[roomCode].currentWord.word])

Max(a, b) == IF a >= b THEN a ELSE b

\* the points without the floor
guessPoints_NoFloor(guessRank) == POINTS_GUESS_BASE - (guessRank * POINTS_GUESS_DECAY)

guessPoints(guessRank) ==
  Max(POINTS_GUESS_BASE - (guessRank * POINTS_GUESS_DECAY), POINTS_GUESS_FLOOR)

\* handleCorrectGuess(roomCode, playerId, room.players).  result is "null", "ok" or
\* "throw": players[state.currentPlayerIndex] is undefined and its .id is read, in
\* the rank filter when some player is already marked correct, else in the
\* guessers filter, after the score and the flag of the player were written.
handleCorrectGuess(W, roomCode, playerId) ==
  IF roomCode \notin DOMAIN W.gameStates
  THEN [W |-> W, result |-> "null", points |-> 0, allGuessed |-> FALSE]
  ELSE LET state == W.gameStates[roomCode]
           ps == players(W, roomCode)
           found == {i \in 1..Len(ps) : ps[i].id = playerId}
           me == CHOOSE j \in found : \A k \in found : j <= k
           drawerAt == state.currentPlayerIndex + 1
           hasDrawer == drawerAt \in 1..Len(ps)
           someCorrect == \E i \in 1..Len(ps) : ps[i].hasGuessedCorrectly
           guessRank == IF hasDrawer
                        THEN Cardinality({i \in 1..Len(ps) :
                               ps[i].hasGuessedCorrectly /\ ps[i].id # ps[drawerAt].id})
                        ELSE 0
           points == guessPoints(guessRank)
           ps1 == [ps EXCEPT ![me].score = @ + points, ![me].hasGuessedCorrectly = TRUE]
           allGuessed == \A i \in 1..Len(ps1) :
                           ps1[i].id # ps1[drawerAt].id => ps1[i].hasGuessedCorrectly
           ps2 == IF allGuessed
                  THEN [ps1 EXCEPT ![drawerAt].score = @ + POINTS_DRAWER_ALL_GUESSED]
                  ELSE ps1
       IN  IF found = {} \/ ps[me].hasGuessedCorrectly
           THEN [W |-> W, result |-> "null", points |-> 0, allGuessed |-> FALSE]
           ELSE IF ~hasDrawer /\ someCorrect
           THEN [W |-> [W EXCEPT !.proc = "crashed"], result |-> "throw", points |-> 0,
                 allGuessed |-> FALSE]
           ELSE IF ~hasDrawer
           THEN [W |-> [W EXCEPT !.proc = "crashed", !.rooms[roomCode].players = ps1],
                 result |-> "throw", points |-> 0, allGuessed |-> FALSE]
           ELSE [W |-> [W EXCEPT !.rooms[roomCode].players = ps2],
                 result |-> "ok", points |-> points, allGuessed |-> allGuessed]

endTurn(W, roomCode) ==
  IF roomCode \notin DOMAIN W.gameStates THEN W
  ELSE LET W1 == IF W.gameStates[roomCode].timerInterval # Null
                 THEN [clearInterval(W, roomCode) EXCEPT
                         !.gameStates[roomCode].timerInterval = Null]
                 ELSE W
       IN  [W1 EXCEPT !.gameStates[roomCode].phase = "TURN_END"]

endRound(W, roomCode) ==
  IF roomCode \notin DOMAIN W.gameStates THEN W
  ELSE LET state == W.gameStates[roomCode] IN
       [W EXCEPT !.gameStates[roomCode].phase =
                   IF state.currentRound >= state.totalRounds THEN "GAME_OVER" ELSE "ROUND_END"]

resetPlayersForTurn(W, roomCode) ==
  LET ps == players(W, roomCode)
  IN  [W EXCEPT !.rooms[roomCode].players =
                  [i \in 1..Len(ps) |-> [ps[i] EXCEPT !.hasGuessedCorrectly = FALSE]]]

decrementTimer(W, roomCode) ==
  IF roomCode \notin DOMAIN W.gameStates THEN W
  ELSE [W EXCEPT !.gameStates[roomCode].timeLeft = Max(0, @ - 1)]

(***************************************************************************)
(* Server entry point: helpers.                                            *)
(***************************************************************************)
RevealPrefix == "Time's up! The word was: "

startTurnTimer(W, roomCode) ==
  IF roomCode \notin DOMAIN W.gameStates THEN W
  ELSE LET W1 == IF W.gameStates[roomCode].timerInterval # Null
                 THEN clearInterval(W, roomCode) ELSE W
           t == [Timer("interval", roomCode, TICK_PERIOD) EXCEPT !.tracked = TRUE]
       IN  [setTimer(W1, t) EXCEPT !.gameStates[roomCode].timerInterval = "interval"]

handleTurnEnd(W, roomCode) ==
  IF roomCode \notin DOMAIN W.rooms \/ roomCode \notin DOMAIN W.gameStates THEN W
  ELSE LET W1 == endTurn(W, roomCode)
           word == W1.gameStates[roomCode].currentWord.word
           W2 == addMessage(W1, roomCode,
                   SystemMessage(<<RevealPrefix, IF word = Null THEN "undefined" ELSE word>>))
           t == [Timer("advance", roomCode, TURN_END_DELAY) EXCEPT
                   !.stateObj = "live", !.roomObj = "live"]
       IN  setTimer(W2, t)

handleRoundEnd(W, roomCode) ==
  IF roomCode \notin DOMAIN W.gameStates THEN W
  ELSE LET W1 == endRound(W, roomCode) IN
       IF W1.gameStates[roomCode].phase = "GAME_OVER" THEN W1
       ELSE setTimer(W1, [Timer("nextRound", roomCode, ROUND_END_DELAY) EXCEPT
                            !.stateObj = "live"])

handleStartRound(W, roomCode, roundNum) ==
  IF roomCode \notin DOMAIN W.rooms THEN W
  ELSE LET W1 == startRound(W, roomCode, roundNum)
           W2 == addMessage(W1, roomCode,
                   SystemMessage(<<"Round ", ToString(roundNum), " begins!">>))
       IN  setTimer(W2, Timer("firstTurn", roomCode, ROUND_START_DELAY))

\* the payload of the 'room-updated' event that broadcastRoomState sends to the
\* connections of the room
roomSnapshot(W, roomCode) ==
  LET room == W.rooms[roomCode]
      gameState == W.gameStates[roomCode]
  IN  [room |-> [id |-> room.id, isPrivate |-> room.isPrivate,
                 playerCount |-> Len(room.players), maxPlayers |-> room.maxPlayers,
                 status |-> room.status, hostId |-> room.hostId],
       players |-> room.players,
       gameState |-> IF roomCode \notin DOMAIN W.gameStates THEN <<>>
                     ELSE [phase |-> gameState.phase,
                           currentRound |-> gameState.currentRound,
                           totalRounds |-> gameState.totalRounds,
                           currentPlayerIndex |-> gameState.currentPlayerIndex,
                           currentWord |-> gameState.currentWord,
                           timeLeft |-> gameState.timeLeft,
                           messages |-> gameState.messages,
                           canvasData |-> gameState.canvasData]]

\* [...socketToPlayer.entries()].find(([, playerId]) => playerId === id): the
\* connections of the first entry, in insertion order, that holds the player
drawerSocket(W, id) ==
  LET at == {i \in 1..Len(W.socketOrder) : W.socketToPlayer[W.socketOrder[i]] = id}
  IN  IF at = {} THEN {} ELSE {W.socketOrder[CHOOSE i \in at : \A j \in at : i <= j]}

\* io.to(socket).emit('word-options', { words })
emitWordOptions(W, to, roomCode, words) ==
  [W EXCEPT !.emitted = @ \cup {[to |-> s, code |-> roomCode, words |-> words] : s \in to}]

\* the end of handleNextTurn: the candidates go to the connection of the drawer
sendWordOptions(W, roomCode, playerIndex) ==
  IF W.proc = "hung" THEN W
  ELSE emitWordOptions(W, drawerSocket(W, players(W, roomCode)[playerIndex + 1].id), roomCode,
                       W.gameStates[roomCode].wordOptions)

handleNextTurn(W, roomCode, playerIndex, ks) ==
  IF roomCode \notin DOMAIN W.rooms \/ roomCode \notin DOMAIN W.gameStates THEN W
  ELSE IF playerIndex >= Len(players(W, roomCode)) THEN handleRoundEnd(W, roomCode)
  ELSE sendWordOptions(startTurn(resetPlayersForTurn(W, roomCode), roomCode, playerIndex, ks),
                       roomCode, playerIndex)

(***************************************************************************)
(* Timer callbacks.                                                        *)
(***************************************************************************)
\* the setInterval callback of startTurnTimer
onInterval(W, roomCode) ==
  IF roomCode \notin DOMAIN W.gameStates THEN W
  ELSE LET W1 == decrementTimer(W, roomCode) IN
       IF W1.gameStates[roomCode].timeLeft <= 0 THEN handleTurnEnd(W1, roomCode) ELSE W1

\* the setTimeout callback of handleTurnEnd; t holds what its closure reads
onAdvance(W, t, ks) ==
  LET nextIdx == (IF t.stateObj = "live" THEN W.gameStates[t.code].currentPlayerIndex
                  ELSE t.cpi) + 1
      n == IF t.roomObj = "live" THEN Len(players(W, t.code)) ELSE t.nplayers
  IN  IF nextIdx >= n THEN handleRoundEnd(W, t.code)
      ELSE handleNextTurn(W, t.code, nextIdx, ks)

\* the setTimeout callback of handleRoundEnd
onNextRound(W, t) ==
  LET nextRound == (IF t.stateObj = "live" THEN W.gameStates[t.code].currentRound
                    ELSE t.round) + 1
  IN  handleStartRound(W, t.code, nextRound)

fire(W, t, ks) ==
  LET gone == [W EXCEPT !.timers = @ (-) SetToBag({t})]
      again == setTimer(gone, [t EXCEPT !.rem = TICK_PERIOD])
  IN  CASE t.kind = "interval" -> onInterval(again, t.code)
        [] t.kind = "startRound" -> handleStartRound(gone, t.code, 1)
        [] t.kind = "firstTurn" -> handleNextTurn(gone, t.code, 0, ks)
        [] t.kind = "earlyEnd" -> handleTurnEnd(gone, t.code)
        [] t.kind = "advance" -> onAdvance(gone, t, ks)
        [] t.kind = "nextRound" -> onNextRound(gone, t)

tick(W) == [W EXCEPT !.timers = LET F(t) == [t EXCEPT !.rem = @ - 1] IN MapTimers(@, F)]

(***************************************************************************)
(* Socket event handlers.  Each returns the memory after the handler and   *)
(* the result passed to the client's callback.                             *)
(***************************************************************************)
Ok(W) == [W |-> W, success |-> TRUE, error |-> Null]
Fail(W, error) == [W |-> W, success |-> FALSE, error |-> error]

roomOf(W, socket) == MapGet(W.socketToRoom, socket)
playerOf(W, socket) == MapGet(W.socketToPlayer, socket)

\* room.players[gameState.currentPlayerIndex]: the id, or Null for undefined
currentDrawer(W, roomCode) ==
  LET ps == players(W, roomCode)
      at == W.gameStates[roomCode].currentPlayerIndex + 1
  IN  IF at \in 1..Len(ps) THEN ps[at].id ELSE Null

onCreateRoom(W, roomCode, isPrivate, password) ==
  Ok(initializeGameState(createRoom(W, roomCode, isPrivate, password), roomCode))

onJoinRoom(W, socket, roomCode, password, player) ==
  IF roomCode \notin DOMAIN W.rooms THEN Fail(W, "Room not found")
  ELSE IF W.rooms[roomCode].isPrivate /\ W.rooms[roomCode].password \notin {Null, ""}
          /\ ~verifyRoomPassword(W, roomCode, password)
  THEN Fail(W, "Incorrect password")
  ELSE LET result == addPlayerToRoom(W, roomCode, player) IN
       IF ~result.success THEN Fail(W, result.error)
       ELSE LET W1 == [result.W EXCEPT
                          !.socketToPlayer = (socket :> player.id) @@ @,
                          !.socketToRoom = (socket :> roomCode) @@ @,
                          !.socketOrder = IF socket \in Range(@) THEN @
                                          ELSE Append(@, socket)]
            IN  Ok(IF roomCode \notin DOMAIN W1.gameStates
                   THEN initializeGameState(W1, roomCode) ELSE W1)

\* the body shared by the leave-room and the disconnect handler
\* the shared body without the deletion of the game state
removeConnection_KeepsState(W, socket) ==
  LET roomCode == roomOf(W, socket)
      playerId == playerOf(W, socket)
  IN  IF roomCode = Null \/ playerId = Null THEN W
      ELSE [removePlayerFromRoom(W, roomCode, playerId).W EXCEPT
              !.socketToPlayer = MapDelete(@, socket),
              !.socketToRoom = MapDelete(@, socket),
              !.socketOrder = FilterIdx(@, {i \in 1..Len(@) : @[i] # socket}, 1)]

\* the shared body without the deletion of the connection's entries
removeConnection_KeepsMapping(W, socket) ==
  LET roomCode == roomOf(W, socket)
      playerId == playerOf(W, socket)
  IN  IF roomCode = Null \/ playerId = Null THEN W
      ELSE LET result == removePlayerFromRoom(W, roomCode, playerId)
           IN  IF result.deleted THEN deleteGameState(result.W, roomCode) ELSE result.W

removeConnection(W, socket) ==
  LET roomCode == roomOf(W, socket)
      playerId == playerOf(W, socket)
  IN  IF roomCode = Null \/ playerId = Null THEN W
      ELSE LET result == removePlayerFromRoom(W, roomCode, playerId)
               W1 == [result.W EXCEPT
                        !.socketToPlayer = MapDelete(@, socket),
                        !.socketToRoom = MapDelete(@, socket),
                        !.socketOrder = FilterIdx(@, {i \in 1..Len(@) : @[i] # socket}, 1)]
           IN  IF result.deleted THEN deleteGameState(W1, roomCode) ELSE W1

onLeaveRoom(W, socket) == Ok(removeConnection(W, socket))

onDisconnect(W, socket) == Ok(removeConnection(W, socket))

onStartGame(W, socket) ==
  LET roomCode == roomOf(W, socket)
      playerId == playerOf(W, socket)
  IN  IF roomCode \notin DOMAIN W.rooms THEN Fail(W, "Room not found")
      ELSE IF W.rooms[roomCode].hostId # playerId THEN Fail(W, "Only host can start the game")
      ELSE IF Len(players(W, roomCode)) < 2 THEN Fail(W, "Need at least 2 players")
      ELSE LET W1 == updateRoomStatus(W, roomCode, "PLAYING")
               W2 == startGame(W1, roomCode)
           IN  Ok(setTimer(W2, Timer("startRound", roomCode, START_GAME_DELAY)))

\* select-word without the check of the caller against the current drawer
onSelectWord_AnyCaller(W, socket, word) ==
  LET roomCode == roomOf(W, socket)
      playerId == playerOf(W, socket)
  IN  IF roomCode \notin DOMAIN W.rooms \/ roomCode \notin DOMAIN W.gameStates
      THEN Fail(W, "Room not found")
      ELSE LET W1 == selectWord(W, roomCode, word)
               W2 == addMessage(W1, roomCode, SystemMessage(<<playerId, " selected a word!">>))
           IN  Ok(startTurnTimer(W2, roomCode))

onSelectWord(W, socket, word) ==
  LET roomCode == roomOf(W, socket)
      playerId == playerOf(W, socket)
  IN  IF roomCode \notin DOMAIN W.rooms \/ roomCode \notin DOMAIN W.gameStates
      THEN Fail(W, "Room not found")
      ELSE IF currentDrawer(W, roomCode) = Null \/ currentDrawer(W, roomCode) # playerId
      THEN Fail(W, "Not your turn")
      ELSE LET W1 == selectWord(W, roomCode, word)
               W2 == addMessage(W1, roomCode, SystemMessage(<<playerId, " selected a word!">>))
           IN  Ok(startTurnTimer(W2, roomCode))

\* draw-update without the check of the caller against the current drawer
onDrawUpdate_AnyCaller(W, socket, canvasData) ==
  LET roomCode == roomOf(W, socket)
  IN  IF roomCode \notin DOMAIN W.rooms \/ roomCode \notin DOMAIN W.gameStates THEN Fail(W, Null)
      ELSE Ok(updateCanvas(W, roomCode, canvasData))

onDrawUpdate(W, socket, canvasData) ==
  LET roomCode == roomOf(W, socket)
      playerId == playerOf(W, socket)
  IN  IF roomCode \notin DOMAIN W.rooms \/ roomCode \notin DOMAIN W.gameStates THEN Fail(W, Null)
      ELSE IF currentDrawer(W, roomCode) = Null \/ currentDrawer(W, roomCode) # playerId
      THEN Fail(W, Null)
      ELSE Ok(updateCanvas(W, roomCode, canvasData))

\* submit-guess that lets the current drawer guess
onSubmitGuess_DrawerGuesses(W, socket, text) ==
  LET roomCode == roomOf(W, socket)
      playerId == playerOf(W, socket)
  IN  IF roomCode \notin DOMAIN W.rooms \/ roomCode \notin DOMAIN W.gameStates THEN Fail(W, Null)
      ELSE LET ps == players(W, roomCode)
               found == {i \in 1..Len(ps) : ps[i].id = playerId}
               player == ps[CHOOSE j \in found : \A k \in found : j <= k]
               isDrawer == currentDrawer(W, roomCode) # Null
                           /\ currentDrawer(W, roomCode) = playerId
               chat == Ok(addMessage(W, roomCode, ChatMessage(playerId, text, FALSE)))
               isCorrect == checkGuess(W, roomCode, text)
               result == handleCorrectGuess(W, roomCode, playerId)
               W1 == addMessage(result.W, roomCode,
                       ChatMessage(playerId,
                         <<"Guessed the word! (+", ToString(result.points), ")">>, TRUE))
           IN  IF found = {} THEN Fail(W, Null)
               ELSE IF player.hasGuessedCorrectly THEN chat
               ELSE IF isCorrect /\ W.gameStates[roomCode].phase = "DRAWING"
               THEN CASE result.result = "throw" -> Fail(result.W, "uncaught TypeError")
                      [] result.result = "null" -> chat
                      [] OTHER ->
                         Ok(IF result.allGuessed
                            THEN setTimer(W1, Timer("earlyEnd", roomCode, EARLY_END_DELAY))
                            ELSE W1)
               ELSE chat

\* submit-guess that schedules no early end of the turn
onSubmitGuess_NoEarlyEnd(W, socket, text) ==
  LET roomCode == roomOf(W, socket)
      playerId == playerOf(W, socket)
  IN  IF roomCode \notin DOMAIN W.rooms \/ roomCode \notin DOMAIN W.gameStates THEN Fail(W, Null)
      ELSE LET ps == players(W, roomCode)
               found == {i \in 1..Len(ps) : ps[i].id = playerId}
               player == ps[CHOOSE j \in found : \A k \in found : j <= k]
               isDrawer == currentDrawer(W, roomCode) # Null
                           /\ currentDrawer(W, roomCode) = playerId
               chat == Ok(addMessage(W, roomCode, ChatMessage(playerId, text, FALSE)))
               isCorrect == checkGuess(W, roomCode, text)
               result == handleCorrectGuess(W, roomCode, playerId)
               W1 == addMessage(result.W, roomCode,
                       ChatMessage(playerId,
                         <<"Guessed the word! (+", ToString(result.points), ")">>, TRUE))
           IN  IF found = {} THEN Fail(W, Null)
               ELSE IF player.hasGuessedCorrectly \/ isDrawer THEN chat
               ELSE IF isCorrect /\ W.gameStates[roomCode].phase = "DRAWING"
               THEN CASE result.result = "throw" -> Fail(result.W, "uncaught TypeError")
                      [] result.result = "null" -> chat
                      [] OTHER ->
                         Ok(W1)
               ELSE chat

onSubmitGuess(W, socket, text) ==
  LET roomCode == roomOf(W, socket)
      playerId == playerOf(W, socket)
  IN  IF roomCode \notin DOMAIN W.rooms \/ roomCode \notin DOMAIN W.gameStates THEN Fail(W, Null)
      ELSE LET ps == players(W, roomCode)
               found == {i \in 1..Len(ps) : ps[i].id = playerId}
               player == ps[CHOOSE j \in found : \A k \in found : j <= k]
               isDrawer == currentDrawer(W, roomCode) # Null
                           /\ currentDrawer(W, roomCode) = playerId
               chat == Ok(addMessage(W, roomCode, ChatMessage(playerId, text, FALSE)))
               isCorrect == checkGuess(W, roomCode, text)
               result == handleCorrectGuess(W, roomCode, playerId)
               W1 == addMessage(result.W, roomCode,
                       ChatMessage(playerId,
                         <<"Guessed the word! (+", ToString(result.points), ")">>, TRUE))
           IN  IF found = {} THEN Fail(W, Null)
               ELSE IF player.hasGuessedCorrectly \/ isDrawer THEN chat
               ELSE IF isCorrect /\ W.gameStates[roomCode].phase = "DRAWING"
               THEN CASE result.result = "throw" -> Fail(result.W, "uncaught TypeError")
                      [] result.result = "null" -> chat
                      [] OTHER ->
                         Ok(IF result.allGuessed
                            THEN setTimer(W1, Timer("earlyEnd", roomCode, EARLY_END_DELAY))
                            ELSE W1)
               ELSE chat

onChatMessage(W, socket, text) ==
  LET roomCode == roomOf(W, socket)
      playerId == playerOf(W, socket)
  IN  IF roomCode \notin DOMAIN W.rooms THEN Fail(W, Null)
      ELSE IF ~IsMember(W.rooms[roomCode], playerId) THEN Fail(W, Null)
      ELSE Ok(addMessage(W, roomCode, ChatMessage(playerId, text, FALSE)))

\* restart-game without the reset of the members
onRestartGame_KeepsScores(W, socket) ==
  LET roomCode == roomOf(W, socket)
  IN  IF roomCode \notin DOMAIN W.rooms THEN Fail(W, Null)
      ELSE Ok(initializeGameState(updateRoomStatus(W, roomCode, "WAITING"), roomCode))

onRestartGame(W, socket) ==
  LET roomCode == roomOf(W, socket)
  IN  IF roomCode \notin DOMAIN W.rooms THEN Fail(W, Null)
      ELSE LET W1 == updateRoomStatus(W, roomCode, "WAITING")
               W2 == initializeGameState(W1, roomCode)
           IN  Ok([W2 EXCEPT !.rooms[roomCode].players = resetPlayers(@)])

(***************************************************************************)
(* Inputs of the clients and the bounds on them.                           *)
(***************************************************************************)
RoomKinds == {<<FALSE, Null>>}              \* (isPrivate, password) of create-room
OutsideWord == WO("Zebra", "THING")         \* a word no pool offers
ChatTexts == {<<"h", "i">>}
WrongGuess == <<"n", "o">>
Canvases == {"png1"}

\* what a client may send as the chosen word: an offered candidate or another word
WordChoices(W, roomCode) ==
  LET options == W.gameStates[roomCode].wordOptions
  IN  (IF options = <<>> THEN {} ELSE {options[1]}) \cup {OutsideWord}

\* what a client may send as a guess: the word itself or something else
GuessTexts(W, roomCode) ==
  LET word == W.gameStates[roomCode].currentWord.word
  IN  (IF word = Null THEN {} ELSE {Chars[word]}) \cup {WrongGuess}

chatLines(messages) ==
  Cardinality({i \in 1..Len(messages) : ~messages[i].isSystem /\ ~messages[i].isCorrectGuess})

Bounded(W) ==
  /\ BagCardinality(W.timers) <= MaxTimers
  /\ \A c \in DOMAIN W.gameStates : chatLines(W.gameStates[c].messages) <= MaxChat
  /\ \A c \in DOMAIN W.gameStates : W.gameStates[c].currentRound <= MaxRound
  /\ \A c \in DOMAIN W.rooms : \A i \in 1..Len(W.rooms[c].players) :
        W.rooms[c].players[i].score <= MaxScore

\* An intent the game's own client does not send in the state: create-room
\* answered with a code that a room or a pending callback of a deleted room
\* still uses (generateRoomCode draws it at random), start-game outside the lobby, select-word
\* outside word selection or of a word that is not offered, restart-game
\* before the game is over.  Spec leaves these out of the runs; the handlers
\* accept them.
IllTimedCreate(roomCode) ==
  \/ roomCode \in DOMAIN rooms
  \/ \E t \in BagToSet(timers) : t.code = roomCode
IllTimedStart(socket) ==
  /\ roomOf(World, socket) \in DOMAIN gameStates
  /\ gameStates[roomOf(World, socket)].phase # "ROOM_LOBBY"
IllTimedSelect(socket, word) ==
  \/ gameStates[roomOf(World, socket)].phase # "WORD_SELECTION"
  \/ word \notin Range(gameStates[roomOf(World, socket)].wordOptions)
IllTimedRestart(socket) ==
  /\ roomOf(World, socket) \in DOMAIN gameStates
  /\ gameStates[roomOf(World, socket)].phase # "GAME_OVER"

\* The clients send nothing in the middle of a drawing turn: only in its first
\* EarlyWindow seconds and its last LateWindow seconds.  The countdown runs
\* through the seconds between.
ClientsActive ==
  \A c \in DOMAIN gameStates :
    gameStates[c].phase = "DRAWING" =>
      \/ gameStates[c].timeLeft > TURN_DURATION_SECONDS - EarlyWindow
      \/ gameStates[c].timeLeft <= LateWindow

\* the memory after the step and what the step has sent
Step(W) ==
  /\ rooms' = W.rooms
  /\ gameStates' = W.gameStates
  /\ socketToPlayer' = W.socketToPlayer
  /\ socketToRoom' = W.socketToRoom
  /\ socketOrder' = W.socketOrder
  /\ timers' = W.timers
  /\ proc' = W.proc
  /\ emitted' = W.emitted

Commit(W) == Bounded(W) /\ Step(W)

(***************************************************************************)
(* The state machine.                                                      *)
(***************************************************************************)
Init ==
  /\ rooms = <<>>
  /\ gameStates = <<>>
  /\ socketToPlayer = <<>>
  /\ socketToRoom = <<>>
  /\ socketOrder = <<>>
  /\ timers = EmptyBag
  /\ proc = "running"
  /\ emitted = {}

CreateRoom ==
  /\ proc = "running"
  /\ ClientsActive
  /\ \E roomCode \in generateRoomCode, kind \in RoomKinds :
       /\ ~IllTimedCreate(roomCode)
       /\ Commit(onCreateRoom(World, roomCode, kind[1], kind[2]).W)

JoinRoom ==
  /\ proc = "running"
  /\ ClientsActive
  /\ \E socket \in Sockets, roomCode \in RoomCodes, kind \in RoomKinds :
       Commit(onJoinRoom(World, socket, roomCode, kind[2], NewPlayer(PlayerOf[socket])).W)

LeaveRoom ==
  /\ proc = "running"
  /\ ClientsActive
  /\ \E socket \in Sockets : Commit(onLeaveRoom(World, socket).W)

Disconnect ==
  /\ proc = "running"
  /\ ClientsActive
  /\ \E socket \in Sockets : Commit(onDisconnect(World, socket).W)

StartGame ==
  /\ proc = "running"
  /\ ClientsActive
  /\ \E socket \in Sockets :
       /\ ~IllTimedStart(socket)
       /\ Commit(onStartGame(World, socket).W)

SelectWord ==
  /\ proc = "running"
  /\ ClientsActive
  /\ \E socket \in Sockets :
       /\ roomOf(World, socket) \in DOMAIN gameStates
       /\ \E word \in WordChoices(World, roomOf(World, socket)) :
            /\ ~IllTimedSelect(socket, word)
            /\ Commit(onSelectWord(World, socket, word).W)

DrawUpdate ==
  /\ proc = "running"
  /\ ClientsActive
  /\ \E socket \in Sockets, canvasData \in Canvases :
       Commit(onDrawUpdate(World, socket, canvasData).W)

SubmitGuess ==
  /\ proc = "running"
  /\ ClientsActive
  /\ \E socket \in Sockets :
       /\ roomOf(World, socket) \in DOMAIN gameStates
       /\ \E text \in GuessTexts(World, roomOf(World, socket)) :
            Commit(onSubmitGuess(World, socket, text).W)

SendChat ==
  /\ proc = "running"
  /\ ClientsActive
  /\ \E socket \in Sockets, text \in ChatTexts : Commit(onChatMessage(World, socket, text).W)

RestartGame ==
  /\ proc = "running"
  /\ ClientsActive
  /\ \E socket \in Sockets :
       /\ ~IllTimedRestart(socket)
       /\ Commit(onRestartGame(World, socket).W)

\* a callback that is due runs
Fire ==
  /\ proc = "running"
  /\ \E t \in BagToSet(timers), ks \in Draws :
       /\ t.rem = 0
       /\ Commit(fire(World, t, ks))

\* one second passes; callbacks that are due run first
Tick ==
  /\ proc = "running"
  /\ timers # EmptyBag
  /\ \A t \in BagToSet(timers) : t.rem > 0
  /\ Commit(tick(World))

Next ==
  \/ CreateRoom
  \/ JoinRoom
  \/ LeaveRoom
  \/ Disconnect
  \/ StartGame
  \/ SelectWord
  \/ SubmitGuess
  \/ Fire
  \/ Tick

Spec == Init /\ [][Next]_vars

\* the same server with clients that draw and do not guess
NextDraw ==
  \/ CreateRoom
  \/ JoinRoom
  \/ LeaveRoom
  \/ StartGame
  \/ SelectWord
  \/ DrawUpdate
  \/ Fire
  \/ Tick

SpecDraw == Init /\ [][NextDraw]_vars

(***************************************************************************)
(* The first turn of a game in a room of up to MaxGuessers + 1 members:    *)
(* the members join one after the other, the host starts the game, the     *)
(* first drawer selects a word and, in the first second of the turn, the   *)
(* members send the word as their guess in any order.  The run stops when  *)
(* the second turn begins.                                                 *)
(***************************************************************************)
TurnSocketIds == <<"s1", "s2", "s3", "s4", "s5", "s6", "s7", "s8">>
TurnPlayerIds == <<"p1", "p2", "p3", "p4", "p5", "p6", "p7", "p8">>

firstTurn == \A c \in DOMAIN gameStates : gameStates[c].currentPlayerIndex = 0

JoinInTurn ==
  /\ proc = "running"
  /\ \E roomCode \in DOMAIN rooms :
       LET i == Len(rooms[roomCode].players) + 1 IN
       /\ i <= MaxGuessers + 1
       /\ rooms[roomCode].status = "WAITING"
       /\ Commit(onJoinRoom(World, TurnSocketIds[i], roomCode, Null,
                            NewPlayer(TurnPlayerIds[i])).W)

GuessWord ==
  /\ proc = "running"
  /\ firstTurn
  /\ \E socket \in DOMAIN socketToRoom :
       LET c == roomOf(World, socket) IN
       /\ c \in DOMAIN rooms \cap DOMAIN gameStates
       /\ gameStates[c].phase = "DRAWING"
       /\ gameStates[c].timeLeft > TURN_DURATION_SECONDS - EarlyWindow
       /\ LET r == onSubmitGuess(World, socket, Chars[gameStates[c].currentWord.word])
          IN  r.W.rooms # rooms /\ Commit(r.W)

FireInTurn == firstTurn /\ Fire

TickInTurn == firstTurn /\ Tick

SelectInTurn == firstTurn /\ SelectWord

NextTurn ==
  \/ CreateRoom
  \/ JoinInTurn
  \/ StartGame
  \/ SelectInTurn
  \/ GuessWord
  \/ FireInTurn
  \/ TickInTurn

SpecTurn == Init /\ [][NextTurn]_vars

(***************************************************************************)
(* A room of two up to the first drawing turn of a game, in which the      *)
(* random draws may offer any word of the three pools to the drawer, and   *)
(* members who send texts made from the current word (from "Cat" when      *)
(* there is none).  The run stops the clock when the drawing begins.       *)
(***************************************************************************)
PoolWords == Range(EASY_WORDS) \cup Range(MEDIUM_WORDS) \cup Range(HARD_WORDS)

upperCase(s) ==
  [i \in 1..Len(s) |->
     IF \E u \in DOMAIN UpperToLower : UpperToLower[u] = s[i]
     THEN CHOOSE u \in DOMAIN UpperToLower : UpperToLower[u] = s[i] ELSE s[i]]

\* texts a guesser may type for the word w
GuessVariants(w) ==
  {w, toLowerCase(w), upperCase(w), <<" ", "\t">> \o w, w \o <<" ", "\n">>,
   <<" ">> \o upperCase(w) \o <<" ">>, w \o <<"s">>, Tail(w), SubSeq(w, 1, Len(w) - 1),
   <<Head(w), " ">> \o Tail(w), <<>>, <<" ", " ">>, WrongGuess}

beforeDrawing == \A c \in DOMAIN gameStates : gameStates[c].phase # "DRAWING"

SelectPoolWord ==
  /\ proc = "running"
  /\ \E socket \in Sockets, word \in PoolWords :
       /\ roomOf(World, socket) \in DOMAIN gameStates
       /\ gameStates[roomOf(World, socket)].phase = "WORD_SELECTION"
       /\ Commit(onSelectWord(World, socket, word).W)

GuessVariant ==
  /\ proc = "running"
  /\ \E socket \in Sockets :
       LET c == roomOf(World, socket) IN
       /\ c \in DOMAIN rooms \cap DOMAIN gameStates
       /\ LET word == gameStates[c].currentWord.word
          IN  \E text \in GuessVariants(Chars[IF word = Null THEN "Cat" ELSE word]) :
                Commit(onSubmitGuess(World, socket, text).W)

FireBeforeDrawing == beforeDrawing /\ Fire

TickBeforeDrawing == beforeDrawing /\ Tick

NextGuess ==
  \/ CreateRoom
  \/ JoinRoom
  \/ StartGame
  \/ SelectPoolWord
  \/ GuessVariant
  \/ FireBeforeDrawing
  \/ TickBeforeDrawing

SpecGuess == Init /\ [][NextGuess]_vars

(***************************************************************************)
(* Two rooms and three connections that present a player identity of their *)
(* own choice (the client keeps its identity in the session storage of the *)
(* browser tab, so a duplicated tab presents the identity of the first).   *)
(* Each connection joins once; the hosts start their games; nobody selects *)
(* a word.                                                                 *)
(***************************************************************************)
IdRoomCodes == {"R1", "R2"}
IdSockets == {"s1", "s2", "s3"}
IdPlayers == {"p1", "p2"}

CreateRoomWithCode ==
  /\ proc = "running"
  /\ \E roomCode \in IdRoomCodes :
       /\ roomCode \notin DOMAIN rooms
       /\ Commit(onCreateRoom(World, roomCode, FALSE, Null).W)

JoinAs ==
  /\ proc = "running"
  /\ \E socket \in IdSockets, roomCode \in IdRoomCodes, id \in IdPlayers :
       /\ socket \notin DOMAIN socketToRoom
       /\ Commit(onJoinRoom(World, socket, roomCode, Null, NewPlayer(id)).W)

StartByHost ==
  /\ proc = "running"
  /\ \E socket \in IdSockets :
       /\ roomOf(World, socket) \in DOMAIN gameStates
       /\ gameStates[roomOf(World, socket)].phase = "ROOM_LOBBY"
       /\ Commit(onStartGame(World, socket).W)

NextIds ==
  \/ CreateRoomWithCode
  \/ JoinAs
  \/ StartByHost
  \/ Fire
  \/ Tick

SpecIds == Init /\ [][NextIds]_vars

(***************************************************************************)
(* Two rooms and three connections, two of them with the same identity,    *)
(* that join, also while they are in a room, leave and disconnect; no game *)
(* is started.                                                             *)
(***************************************************************************)
\* the identity of each connection: s2 is a duplicate of the browser tab of s1
TabIdentity == [socket \in IdSockets |-> IF socket = "s3" THEN "p2" ELSE "p1"]

JoinAgain ==
  /\ proc = "running"
  /\ \E socket \in IdSockets, roomCode \in IdRoomCodes :
       Commit(onJoinRoom(World, socket, roomCode, Null, NewPlayer(TabIdentity[socket])).W)

LeaveAs ==
  /\ proc = "running"
  /\ \E socket \in IdSockets :
       /\ socket \in DOMAIN socketToRoom
       /\ Commit(onLeaveRoom(World, socket).W)

DisconnectAs ==
  /\ proc = "running"
  /\ \E socket \in IdSockets :
       /\ socket \in DOMAIN socketToRoom
       /\ Commit(onDisconnect(World, socket).W)

NextMembers ==
  \/ CreateRoomWithCode
  \/ JoinAgain
  \/ LeaveAs
  \/ DisconnectAs

SpecMembers == Init /\ [][NextMembers]_vars

(***************************************************************************)
(* A whole game of a room of two: the members join, the host starts the    *)
(* game, each drawer selects the first candidate, nobody guesses, and the  *)
(* callbacks take the room through its rounds to GAME_OVER.                *)
(***************************************************************************)
Play(W) == BagCardinality(W.timers) <= MaxTimers /\ Step(W)

SelectInGame ==
  /\ proc = "running"
  /\ \E socket \in Sockets :
       /\ roomOf(World, socket) \in DOMAIN gameStates
       /\ \E word \in WordChoices(World, roomOf(World, socket)) :
            /\ ~IllTimedSelect(socket, word)
            /\ Play(onSelectWord(World, socket, word).W)

FireInGame ==
  /\ proc = "running"
  /\ \E t \in BagToSet(timers), ks \in Draws :
       /\ t.rem = 0
       /\ Play(fire(World, t, ks))

TickInGame ==
  /\ proc = "running"
  /\ timers # EmptyBag
  /\ \A t \in BagToSet(timers) : t.rem > 0
  /\ Play(tick(World))

NextGame ==
  \/ CreateRoom
  \/ JoinRoom
  \/ StartGame
  \/ SelectInGame
  \/ FireInGame
  \/ TickInGame

SpecGame == Init /\ [][NextGame]_vars

(***************************************************************************)
(* Restart at any time: the handler of restart-game has no condition on    *)
(* the phase, so a member may send it in the lobby, in the middle of a     *)
(* game or when the game is over.                                          *)
(***************************************************************************)
RestartAnyTime ==
  /\ proc = "running"
  /\ ClientsActive
  /\ \E socket \in Sockets :
       /\ roomOf(World, socket) \in DOMAIN rooms
       /\ Commit(onRestartGame(World, socket).W)

\* the host starts a game when no callback is pending
StartWhenQuiet == timers = EmptyBag /\ StartGame

NextRestart ==
  \/ CreateRoom
  \/ JoinRoom
  \/ StartWhenQuiet
  \/ SelectWord
  \/ SubmitGuess
  \/ RestartAnyTime
  \/ Fire
  \/ Tick

SpecRestart == Init /\ [][NextRestart]_vars

(***************************************************************************)
(* The rounds of a game of two in which the guesser may give the word in   *)
(* the last seconds of a turn of the first round.                          *)
(***************************************************************************)
LastRoundPlayed == 2

roundsLeft == \A c \in DOMAIN gameStates : gameStates[c].currentRound <= LastRoundPlayed

GuessLate ==
  /\ proc = "running"
  /\ \E socket \in Sockets :
       LET c == roomOf(World, socket) IN
       /\ c \in DOMAIN rooms \cap DOMAIN gameStates
       /\ gameStates[c].phase = "DRAWING"
       /\ gameStates[c].currentRound = 1
       /\ gameStates[c].timeLeft <= LateWindow
       /\ LET r == onSubmitGuess(World, socket, Chars[gameStates[c].currentWord.word])
          IN  r.W.rooms # rooms /\ Play(r.W)

SelectInRounds == roundsLeft /\ SelectInGame

FireInRounds == roundsLeft /\ FireInGame

TickInRounds == roundsLeft /\ TickInGame

NextRounds ==
  \/ CreateRoom
  \/ JoinRoom
  \/ StartGame
  \/ SelectInRounds
  \/ GuessLate
  \/ FireInRounds
  \/ TickInRounds

SpecRounds == Init /\ [][NextRounds]_vars

(***************************************************************************)
(* A whole game of a room of two in which the guesser guesses in the last  *)
(* seconds of a turn of round 2.                                           *)
(***************************************************************************)
GuessLateInSecondRound ==
  /\ proc = "running"
  /\ \E socket \in Sockets :
       LET c == roomOf(World, socket) IN
       /\ c \in DOMAIN rooms \cap DOMAIN gameStates
       /\ gameStates[c].phase = "DRAWING"
       /\ gameStates[c].currentRound = 2
       /\ gameStates[c].currentPlayerIndex = 1
       /\ gameStates[c].timeLeft <= LateWindow
       /\ LET r == onSubmitGuess(World, socket, Chars[gameStates[c].currentWord.word])
          IN  r.W.rooms # rooms /\ Play(r.W)

NextLateRounds ==
  \/ CreateRoom
  \/ JoinRoom
  \/ StartGame
  \/ SelectInGame
  \/ GuessLateInSecondRound
  \/ FireInGame
  \/ TickInGame

SpecLateRounds == Init /\ [][NextLateRounds]_vars

(***************************************************************************)
(* A room that fills up: nine connections, each with its own player id,    *)
(* ask to join one after the other, before and during the game.            *)
(***************************************************************************)
FullSocketIds == <<"s1", "s2", "s3", "s4", "s5", "s6", "s7", "s8", "s9">>
FullPlayerIds == <<"p1", "p2", "p3", "p4", "p5", "p6", "p7", "p8", "p9">>

\* the first connection that is in no room asks to join
JoinNext ==
  /\ proc = "running"
  /\ ClientsActive
  /\ \E i \in 1..Len(FullSocketIds), roomCode \in RoomCodes :
       /\ FullSocketIds[i] \notin DOMAIN socketToRoom
       /\ \A j \in 1..(i - 1) : FullSocketIds[j] \in DOMAIN socketToRoom
       /\ Commit(onJoinRoom(World, FullSocketIds[i], roomCode, Null,
                            NewPlayer(FullPlayerIds[i])).W)

SelectByAny ==
  /\ proc = "running"
  /\ ClientsActive
  /\ \E socket \in DOMAIN socketToRoom :
       /\ roomOf(World, socket) \in DOMAIN gameStates
       /\ \E word \in WordChoices(World, roomOf(World, socket)) :
            /\ ~IllTimedSelect(socket, word)
            /\ Commit(onSelectWord(World, socket, word).W)

NextFull ==
  \/ CreateRoom
  \/ JoinNext
  \/ StartGame
  \/ SelectByAny
  \/ Fire
  \/ Tick

SpecFull == Init /\ [][NextFull]_vars

(***************************************************************************)
(* Rooms of every visibility, with and without a password, and joins with  *)
(* every kind of password attempt.                                         *)
(***************************************************************************)
PasswordKinds ==
  {<<FALSE, Null>>, <<FALSE, "abc">>, <<TRUE, Null>>, <<TRUE, "">>, <<TRUE, "abc">>}
Passwords == {Null, "", "abc", "ABC", "abd", " abc", "ab"}
NumJoiners == 3

CreateRoomOfKind ==
  /\ proc = "running"
  /\ \E roomCode \in generateRoomCode, kind \in PasswordKinds :
       /\ ~IllTimedCreate(roomCode)
       /\ Commit(onCreateRoom(World, roomCode, kind[1], kind[2]).W)

JoinWithPassword ==
  /\ proc = "running"
  /\ \E i \in 1..NumJoiners, roomCode \in RoomCodes, password \in Passwords :
       Commit(onJoinRoom(World, SocketIds[i], roomCode, password, NewPlayer(PlayerIds[i])).W)

LeaveAny ==
  /\ proc = "running"
  /\ \E i \in 1..NumJoiners : Commit(onLeaveRoom(World, SocketIds[i]).W)

NextPassword ==
  \/ CreateRoomOfKind
  \/ JoinWithPassword
  \/ LeaveAny
  \/ StartGame
  \/ Fire
  \/ Tick

SpecPassword == Init /\ [][NextPassword]_vars

(***************************************************************************)
(* generateWordOptions over its inputs: a room of two stands at the start  *)
(* of a round, with every round number and with exclusion lists that take  *)
(* the first words of each category out of the round's pool; the callback  *)
(* of the first turn asks for the candidates, again and again.             *)
(***************************************************************************)
WordRounds == 1..TOTAL_ROUNDS
PrefixLengths == {0, 2, 7, 9, 10}

\* the first n words of category c in the pool of the round
firstOf(round, c, n) ==
  LET ws == ofCategory(wordPool(round), c)
  IN  [i \in 1..(IF n < Len(ws) THEN n ELSE Len(ws)) |-> ws[i].word]

ExcludeLists(round) ==
  {firstOf(round, "ACTION", a) \o firstOf(round, "THING", b) \o firstOf(round, "PLACE", c) :
     a \in PrefixLengths, b \in PrefixLengths, c \in PrefixLengths}

InitWords ==
  /\ rooms = ("R1" :> [id |-> "R1", isPrivate |-> FALSE, password |-> Null, hostId |-> "p1",
                       players |-> <<NewPlayer("p1"), NewPlayer("p2")>>,
                       maxPlayers |-> DEFAULT_MAX_PLAYERS, status |-> "PLAYING"])
  /\ \E round \in WordRounds :
       \E excludeWords \in ExcludeLists(round) :
         gameStates = ("R1" :> [phase |-> "ROUND_START", currentRound |-> round,
                                totalRounds |-> TOTAL_ROUNDS, currentPlayerIndex |-> 0,
                                currentWord |-> NullWord, wordOptions |-> <<>>, timeLeft |-> 0,
                                messages |-> <<>>, canvasData |-> Null,
                                usedWords |-> excludeWords, timerInterval |-> Null])
  /\ socketToPlayer = ("s1" :> "p1" @@ "s2" :> "p2")
  /\ socketToRoom = ("s1" :> "R1" @@ "s2" :> "R1")
  /\ socketOrder = <<"s1", "s2">>
  /\ timers = EmptyBag
  /\ proc = "running"
  /\ emitted = {}

OfferWords ==
  /\ proc = "running"
  /\ \E c \in DOMAIN gameStates, ks \in Draws : Step(handleNextTurn(World, c, 0, ks))

NextWords == OfferWords

SpecWords == InitWords /\ [][NextWords]_vars

(***************************************************************************)
(* A whole game of a room of two, as in SpecGame, in which Math.random()   *)
(* may also return 0.7 at the pick of the THING and 0.2 at the pick of the *)
(* PLACE.                                                                  *)
(***************************************************************************)
LuckyDraws == Draws \cup {<<0, 7, 2, 0, 0>>}

FireLucky ==
  /\ proc = "running"
  /\ \E t \in BagToSet(timers), ks \in LuckyDraws :
       /\ t.rem = 0
       /\ Play(fire(World, t, ks))

NextLuck ==
  \/ CreateRoom
  \/ JoinRoom
  \/ StartGame
  \/ SelectInGame
  \/ FireLucky
  \/ TickInGame

SpecLuck == Init /\ [][NextLuck]_vars

(***************************************************************************)
(* Words on display: the drawer's select-word carries any word (the        *)
(* handler takes what it is sent), and the countdown runs from 80 to 0     *)
(* while the guesser's screen shows the masked word.                       *)
(***************************************************************************)
MaskWords ==
  "Up" :> <<"U", "p">> @@
  "Ant" :> <<"A", "n", "t">> @@
  "Moon" :> <<"M", "o", "o", "n">> @@
  "House" :> <<"H", "o", "u", "s", "e">> @@
  "R2D2" :> <<"R", "2", "D", "2">> @@
  "T-Rex" :> <<"T", "-", "R", "e", "x">> @@
  "Hot dog" :> <<"H", "o", "t", " ", "d", "o", "g">> @@
  "Ice-cream" :> <<"I", "c", "e", "-", "c", "r", "e", "a", "m">> @@
  ".com" :> <<".", "c", "o", "m">>

SelectAnyWord ==
  /\ proc = "running"
  /\ \E socket \in Sockets, word \in DOMAIN MaskWords :
       /\ roomOf(World, socket) \in DOMAIN gameStates
       /\ gameStates[roomOf(World, socket)].phase = "WORD_SELECTION"
       /\ gameStates[roomOf(World, socket)].currentPlayerIndex = 0
       /\ Commit(onSelectWord(World, socket, WO(word, "THING")).W)

NextMask ==
  \/ CreateRoom
  \/ JoinRoom
  \/ StartGame
  \/ SelectAnyWord
  \/ Fire
  \/ Tick

SpecMask == Init /\ [][NextMask]_vars

(***************************************************************************)
(* A room whose game is restarted during a drawing turn and started again. *)
(***************************************************************************)
RestartInDrawing ==
  /\ proc = "running"
  /\ ClientsActive
  /\ \E socket \in Sockets :
       /\ roomOf(World, socket) \in DOMAIN rooms \cap DOMAIN gameStates
       /\ gameStates[roomOf(World, socket)].phase = "DRAWING"
       /\ Commit(onRestartGame(World, socket).W)

NextCountdown ==
  \/ CreateRoom
  \/ JoinRoom
  \/ StartGame
  \/ SelectWord
  \/ RestartInDrawing
  \/ Fire
  \/ Tick

SpecCountdown == Init /\ [][NextCountdown]_vars

(***************************************************************************)
(* Properties.                                                             *)
(***************************************************************************)
LiveCodes == DOMAIN rooms \cap DOMAIN gameStates

isReveal(m) == m.isSystem /\ m.text[1] = RevealPrefix

reveals(messages) == Cardinality({i \in 1..Len(messages) : isReveal(messages[i])})

pendingAdvances(roomCode) ==
  BagCardinality([t \in {x \in BagToSet(timers) : x.kind = "advance" /\ x.code = roomCode}
                    |-> CopiesIn(t, timers)])

\* C1: the countdown reaching zero and the early end after the last guess, both
\* firing for one turn, end the turn once: the chat log of the turn holds at
\* most one reveal message and at most one advance to the next turn is pending.
C1_TurnEndsOnce ==
  \A c \in LiveCodes :
    /\ reveals(gameStates[c].messages) <= 1
    /\ pendingAdvances(c) <= 1

\* C2: in TURN_START, WORD_SELECTION, DRAWING and TURN_END the drawer index is
\* an index of the member list: 0 <= currentPlayerIndex < number of members.
C2_DrawerIndexValid ==
  \A c \in LiveCodes :
    gameStates[c].phase \in {"TURN_START", "WORD_SELECTION", "DRAWING", "TURN_END"} =>
      /\ 0 <= gameStates[c].currentPlayerIndex
      /\ gameStates[c].currentPlayerIndex < Len(rooms[c].players)

\* C3: no intent and no timer callback ends in an uncaught error.
C3_NeverCrashes == proc # "crashed"

\* C4: addPlayer for an identity that is a member already succeeds and leaves
\* the member list as it is, whatever the status of the room and its size.
C4_RejoinIsIdempotent ==
  \A c \in DOMAIN rooms : \A i \in 1..Len(rooms[c].players) :
    LET result == addPlayerToRoom(World, c, NewPlayer(rooms[c].players[i].id))
    IN  /\ result.success
        /\ result.W.rooms[c].players = rooms[c].players

\* C5: whatever code generateRoomCode draws, createRoom leaves the entry of
\* every live room (members, host, status) as it is.
C5_CreateKeepsLiveRooms ==
  \A code \in generateRoomCode, kind \in RoomKinds : \A c \in DOMAIN rooms :
    LET W1 == onCreateRoom(World, code, kind[1], kind[2]).W
    IN  c \in DOMAIN W1.rooms /\ W1.rooms[c] = rooms[c]

\* C6: start-game by a caller who is not the host fails with NotHost, by the
\* host of a room with fewer than 2 members fails with InsufficientPlayers,
\* both without any change; by the host of a room with at least 2 members it
\* succeeds, the phase is ROUND_START, the round 1, every score 0 and every
\* guess flag false.
C6_StartGame ==
  \A socket \in Sockets :
    LET c == roomOf(World, socket)
        r == onStartGame(World, socket)
        isHost == rooms[c].hostId = playerOf(World, socket)
        ps == r.W.rooms[c].players
    IN  c \in LiveCodes =>
          /\ ~isHost =>
               ~r.success /\ r.error = "Only host can start the game" /\ r.W = World
          /\ isHost /\ Len(rooms[c].players) < 2 =>
               ~r.success /\ r.error = "Need at least 2 players" /\ r.W = World
          /\ isHost /\ Len(rooms[c].players) >= 2 =>
               /\ r.success
               /\ r.W.gameStates[c].phase = "ROUND_START"
               /\ r.W.gameStates[c].currentRound = 1
               /\ Len(ps) = Len(rooms[c].players)
               /\ \A i \in 1..Len(ps) :
                    /\ ps[i].id = rooms[c].players[i].id
                    /\ ps[i].score = 0
                    /\ ~ps[i].hasGuessedCorrectly

\* a game was started by the host of a room of two whose member had a score
C6_Started ==
  \E c \in LiveCodes :
    /\ gameStates[c].phase = "ROUND_START"
    /\ gameStates[c].currentRound = 1
    /\ rooms[c].status = "PLAYING"
    /\ Len(rooms[c].players) >= 2
    /\ \A i \in 1..Len(rooms[c].players) : rooms[c].players[i].score = 0
    /\ \E t \in BagToSet(timers) : t.kind = "startRound" /\ t.code = c

\* C7: start-game in a phase other than ROOM_LOBBY changes nothing: no score,
\* no phase, no round, and it schedules no round.
C7_StartOnlyInLobby ==
  \A socket \in Sockets :
    LET c == roomOf(World, socket)
    IN  c \in LiveCodes /\ gameStates[c].phase # "ROOM_LOBBY" =>
          onStartGame(World, socket).W = World

countdowns(W, roomCode) ==
  {t \in BagToSet(W.timers) : t.kind = "interval" /\ t.code = roomCode}

\* C8: select-word by a connection whose player is not the current drawer fails
\* with NotYourTurn and changes nothing; by the current drawer in
\* WORD_SELECTION it sets the current word, the remaining time to the turn
\* duration, clears the candidates, moves to DRAWING and arms the countdown
\* (one interval, due in one second, held by the game state).
C8_SelectWord ==
  \A socket \in Sockets :
    LET c == roomOf(World, socket) IN
    c \in LiveCodes =>
      \A word \in WordChoices(World, c) :
        LET r == onSelectWord(World, socket, word)
            isDrawer == currentDrawer(World, c) # Null
                        /\ currentDrawer(World, c) = playerOf(World, socket)
        IN  /\ ~isDrawer => ~r.success /\ r.error = "Not your turn" /\ r.W = World
            /\ isDrawer /\ gameStates[c].phase = "WORD_SELECTION" =>
                 /\ r.success
                 /\ r.W.gameStates[c].currentWord = word
                 /\ r.W.gameStates[c].timeLeft = TURN_DURATION_SECONDS
                 /\ r.W.gameStates[c].wordOptions = <<>>
                 /\ r.W.gameStates[c].phase = "DRAWING"
                 /\ r.W.gameStates[c].timerInterval # Null
                 /\ \E t \in countdowns(r.W, c) :
                      /\ countdowns(r.W, c) = {t}
                      /\ CopiesIn(t, r.W.timers) = 1
                      /\ t.tracked /\ t.rem = TICK_PERIOD

\* the drawer has just chosen a word while another member is in the room
C8_WordChosen ==
  \E c \in LiveCodes :
    /\ gameStates[c].phase = "DRAWING"
    /\ gameStates[c].timeLeft = TURN_DURATION_SECONDS
    /\ gameStates[c].currentWord \in Range(wordPool(gameStates[c].currentRound))
    /\ gameStates[c].wordOptions = <<>>
    /\ countdowns(World, c) # {}
    /\ \E socket \in Sockets :
         /\ roomOf(World, socket) = c
         /\ IsMember(rooms[c], playerOf(World, socket))
         /\ currentDrawer(World, c) # playerOf(World, socket)

\* C9: during WORD_SELECTION, select-word with a word that is not among the
\* candidates offered to the drawer is rejected and the current word stays as
\* it is.
C9_OnlyOfferedWords ==
  \A socket \in Sockets :
    LET c == roomOf(World, socket) IN
    c \in LiveCodes /\ gameStates[c].phase = "WORD_SELECTION" =>
      \A word \in WordChoices(World, c) \ Range(gameStates[c].wordOptions) :
        LET r == onSelectWord(World, socket, word)
        IN  ~r.success /\ r.W.gameStates[c].currentWord = gameStates[c].currentWord

\* C10: select-word by the current drawer in a phase other than WORD_SELECTION
\* leaves the current word, the remaining time, the phase and the pending
\* callbacks as they are.
C10_SelectOnlyInWordSelection ==
  \A socket \in Sockets :
    LET c == roomOf(World, socket) IN
    c \in LiveCodes /\ gameStates[c].phase # "WORD_SELECTION" =>
      \A word \in WordChoices(World, c) :
        LET r == onSelectWord(World, socket, word)
        IN  /\ r.W.gameStates[c].currentWord = gameStates[c].currentWord
            /\ r.W.gameStates[c].timeLeft = gameStates[c].timeLeft
            /\ r.W.gameStates[c].phase = gameStates[c].phase
            /\ r.W.timers = timers

\* the canvas payloads of the hypothetical draw-update calls
CanvasPayloads == Canvases \cup {"png2"}

isCurrentDrawer(W, socket) ==
  /\ currentDrawer(W, roomOf(W, socket)) # Null
  /\ currentDrawer(W, roomOf(W, socket)) = playerOf(W, socket)

\* C11: draw-update by a connection whose player is not the member at
\* currentPlayerIndex leaves the whole state (the canvas snapshot with it) as it
\* is and relays nothing; by the current drawer it replaces the snapshot by the
\* payload, changes nothing else and relays.
C11_DrawOnlyByDrawer ==
  \A socket \in Sockets, canvasData \in CanvasPayloads :
    LET c == roomOf(World, socket)
        r == onDrawUpdate(World, socket, canvasData)
    IN  /\ c \notin LiveCodes => ~r.success /\ r.W = World
        /\ c \in LiveCodes /\ ~isCurrentDrawer(World, socket) => ~r.success /\ r.W = World
        /\ c \in LiveCodes /\ isCurrentDrawer(World, socket) =>
             /\ r.success
             /\ r.W = [World EXCEPT !.gameStates[c].canvasData = canvasData]

\* the drawer has drawn while another member's connection is in the room
C11_Drawn ==
  \E c \in LiveCodes :
    /\ gameStates[c].phase = "DRAWING"
    /\ gameStates[c].canvasData \in Canvases
    /\ \E s1, s2 \in Sockets :
         /\ roomOf(World, s1) = c /\ roomOf(World, s2) = c
         /\ isCurrentDrawer(World, s1)
         /\ ~isCurrentDrawer(World, s2)
         /\ IsMember(rooms[c], playerOf(World, s2))

\* C12: in WORD_SELECTION, TURN_END, ROUND_END and GAME_OVER a draw-update,
\* the drawer's included, leaves the canvas snapshot as it is.
C12_DrawOnlyInDrawing ==
  \A socket \in Sockets, canvasData \in CanvasPayloads :
    LET c == roomOf(World, socket) IN
    c \in LiveCodes
    /\ gameStates[c].phase \in {"WORD_SELECTION", "TURN_END", "ROUND_END", "GAME_OVER"} =>
      onDrawUpdate(World, socket, canvasData).W.gameStates[c].canvasData
        = gameStates[c].canvasData

\* the caller may score: a member who is not the member at currentPlayerIndex
\* and is not yet marked correct, in DRAWING, with a text that matches the word
mayScore(W, socket, text) ==
  LET c == roomOf(W, socket)
      ps == players(W, c)
  IN  /\ W.gameStates[c].phase = "DRAWING"
      /\ ~isCurrentDrawer(W, socket)
      /\ \E i \in 1..Len(ps) : ps[i].id = playerOf(W, socket) /\ ~ps[i].hasGuessedCorrectly
      /\ checkGuess(W, c, text)

\* C13: submit-guess changes a score or a guess flag only when mayScore holds;
\* in every other case a member's text is appended to the chat log as an
\* ordinary line and nothing else changes.  When it scores, the caller is marked
\* correct (so a second guess in the turn is chat) and the member at
\* currentPlayerIndex gets no guess points out of its own guess.
C13_GuessScoresOnlyWhenEligible ==
  \A socket \in Sockets :
    LET c == roomOf(World, socket) IN
    c \in LiveCodes =>
      \A text \in GuessTexts(World, c) \cup ChatTexts :
        LET r == onSubmitGuess(World, socket, text)
            playerId == playerOf(World, socket)
            ps == r.W.rooms[c].players
        IN  /\ ~IsMember(rooms[c], playerId) => r.W = World
            /\ IsMember(rooms[c], playerId) /\ ~mayScore(World, socket, text) =>
                 r.W = addMessage(World, c, ChatMessage(playerId, text, FALSE))
            /\ r.W.rooms # rooms =>
                 /\ mayScore(World, socket, text)
                 /\ \E i \in 1..Len(ps) : ps[i].id = playerId /\ ps[i].hasGuessedCorrectly

\* a guesser has scored in a turn in which an ordinary line was sent too
C13_Guessed ==
  \E c \in LiveCodes :
    /\ gameStates[c].phase = "DRAWING"
    /\ chatLines(gameStates[c].messages) > 0
    /\ \E socket \in Sockets :
         /\ roomOf(World, socket) = c
         /\ ~isCurrentDrawer(World, socket)
         /\ \E i \in 1..Len(rooms[c].players) :
              /\ rooms[c].players[i].id = playerOf(World, socket)
              /\ rooms[c].players[i].hasGuessedCorrectly
              /\ rooms[c].players[i].score > 0

\* 500, 400, 300, 200, 200, ... for k = 0, 1, 2, 3, 4, ...
expectedPoints(k) ==
  IF k = 0 THEN 500 ELSE IF k = 1 THEN 400 ELSE IF k = 2 THEN 300 ELSE 200

correctGuessers(c) ==
  {i \in 1..Len(rooms[c].players) :
     /\ rooms[c].players[i].hasGuessedCorrectly
     /\ rooms[c].players[i].id # currentDrawer(World, c)}

\* C14: with k members other than the drawer marked correct already, a member
\* who is not yet marked correct gets expectedPoints(k) = max(500 - 100 * k, 200)
\* points, added to the score it had.
C14_PointsByRank ==
  \A c \in LiveCodes : \A i \in 1..Len(rooms[c].players) :
    LET p == rooms[c].players[i]
        r == handleCorrectGuess(World, c, p.id)
        k == Cardinality(correctGuessers(c))
    IN  currentDrawer(World, c) # Null /\ p.id # currentDrawer(World, c)
        /\ ~p.hasGuessedCorrectly =>
          /\ r.result = "ok"
          /\ r.points = expectedPoints(k)
          /\ r.W.rooms[c].players[i].score = p.score + expectedPoints(k)
          /\ r.W.rooms[c].players[i].hasGuessedCorrectly

\* five guessers have scored in one turn: 500, 400, 300, 200 and 200
C14_FiveGuessers ==
  \E c \in LiveCodes :
    /\ Cardinality(correctGuessers(c)) = 5
    /\ {rooms[c].players[i].score : i \in correctGuessers(c)} = {500, 400, 300, 200}

guessers(c) ==
  {i \in 1..Len(rooms[c].players) : rooms[c].players[i].id # currentDrawer(World, c)}

earlyEnds(W, c) == {t \in BagToSet(W.timers) : t.kind = "earlyEnd" /\ t.code = c}

\* C15: a correct guess that leaves every member other than the drawer marked
\* correct adds exactly 300 to the drawer's score and schedules one turn end
\* due in 2 seconds; a correct guess that leaves a guesser unmarked adds
\* nothing to the drawer's score and schedules nothing.  So, in the first turn
\* of a game, while the room is in DRAWING with every guesser marked correct a
\* turn end is pending that is due within 2 seconds, and the drawer holds 300
\* points exactly when every guesser is marked correct.
C15_AllGuessedBonus ==
  \A c \in LiveCodes :
    LET ps == rooms[c].players
        d == gameStates[c].currentPlayerIndex + 1
        word == gameStates[c].currentWord.word
        allCorrect == guessers(c) # {} /\ guessers(c) = correctGuessers(c)
    IN  gameStates[c].phase \in {"DRAWING", "TURN_END"} /\ d \in 1..Len(ps) =>
          /\ gameStates[c].phase = "DRAWING" =>
               \A socket \in DOMAIN socketToRoom :
                 roomOf(World, socket) = c /\ mayScore(World, socket, Chars[word]) =>
                   LET r == onSubmitGuess(World, socket, Chars[word])
                       last == \A i \in guessers(c) :
                                 ps[i].id = playerOf(World, socket) \/ ps[i].hasGuessedCorrectly
                   IN  /\ r.success
                       /\ r.W.rooms[c].players[d].score
                            = ps[d].score + (IF last THEN POINTS_DRAWER_ALL_GUESSED ELSE 0)
                       /\ r.W.timers
                            = IF last
                              THEN timers (+) SetToBag({Timer("earlyEnd", c, EARLY_END_DELAY)})
                              ELSE timers
          /\ gameStates[c].phase = "DRAWING" /\ allCorrect =>
               \E t \in earlyEnds(World, c) :
                 /\ earlyEnds(World, c) = {t}
                 /\ CopiesIn(t, timers) = 1
                 /\ t.rem <= EARLY_END_DELAY
          /\ firstTurn =>
               ps[d].score = IF allCorrect THEN POINTS_DRAWER_ALL_GUESSED ELSE 0

\* three guessers or more have all guessed and the turn has ended before the
\* countdown came near zero
C15_EndedEarly ==
  \E c \in LiveCodes :
    /\ gameStates[c].phase = "TURN_END"
    /\ gameStates[c].timeLeft >= TURN_DURATION_SECONDS - EarlyWindow - EARLY_END_DELAY
    /\ Cardinality(guessers(c)) >= 3
    /\ guessers(c) = correctGuessers(c)
    /\ rooms[c].players[gameStates[c].currentPlayerIndex + 1].score = POINTS_DRAWER_ALL_GUESSED

RECURSIVE dropLeadingSpace(_)
dropLeadingSpace(s) ==
  IF s # <<>> /\ Head(s) \in {" ", "\t", "\n"} THEN dropLeadingSpace(Tail(s)) ELSE s

RECURSIVE dropTrailingSpace(_)
dropTrailingSpace(s) ==
  IF s # <<>> /\ s[Len(s)] \in {" ", "\t", "\n"}
  THEN dropTrailingSpace(SubSeq(s, 1, Len(s) - 1)) ELSE s

sameLetter(x, y) ==
  \/ x = y
  \/ \E u \in DOMAIN UpperToLower : {x, y} = {u, UpperToLower[u]}

equalIgnoringCase(a, b) ==
  Len(a) = Len(b) /\ \A i \in 1..Len(a) : sameLetter(a[i], b[i])

\* C16: a text is judged correct exactly when there is a current word and the
\* text without its leading and trailing white space equals the word letter by
\* letter, upper and lower case of a letter taken as equal.
C16_GuessMatching ==
  \A c \in LiveCodes :
    LET word == gameStates[c].currentWord.word IN
    \A text \in GuessVariants(Chars[IF word = Null THEN "Cat" ELSE word]) :
      checkGuess(World, c, text)
        <=> /\ gameStates[c].currentWord # NullWord
            /\ equalIgnoringCase(dropTrailingSpace(dropLeadingSpace(text)), Chars[word])

\* a word was guessed after a text that did not match it was logged
C16_Matched ==
  \E c \in LiveCodes :
    /\ gameStates[c].currentWord # NullWord
    /\ chatLines(gameStates[c].messages) > 0
    /\ \E i \in 1..Len(rooms[c].players) : rooms[c].players[i].hasGuessedCorrectly

\* C17: when the only member of a room leaves or disconnects, the room and its
\* game state are gone from the two registries after the handler, and so are
\* the connection's entries in the two connection maps.
C17_LastMemberDeletesRoom ==
  \A socket \in Sockets :
    LET c == roomOf(World, socket)
        playerId == playerOf(World, socket)
    IN  c \in DOMAIN rooms /\ Len(rooms[c].players) = 1 /\ IsMember(rooms[c], playerId) =>
          \A r \in {onLeaveRoom(World, socket), onDisconnect(World, socket)} :
            /\ c \notin DOMAIN r.W.rooms
            /\ c \notin DOMAIN r.W.gameStates
            /\ socket \notin DOMAIN r.W.socketToRoom
            /\ socket \notin DOMAIN r.W.socketToPlayer

\* the last member has left a room whose game was running: callbacks of the
\* game are still pending and the registries are empty
C17_Deleted ==
  /\ rooms = <<>>
  /\ gameStates = <<>>
  /\ socketToRoom = <<>>
  /\ timers # EmptyBag

C19_OptionsOnlyToDrawer ==
  /\ \A c \in LiveCodes : "wordOptions" \notin DOMAIN roomSnapshot(World, c).gameState
  /\ \A e \in emitted :
       /\ roomOf(World, e.to) = e.code
       /\ playerOf(World, e.to) = currentDrawer(World, e.code)

phaseAfter(W, c) == IF c \in DOMAIN W.gameStates THEN W.gameStates[c].phase ELSE "GAME_OVER"

\* C20: once the phase of a room is GAME_OVER, start-game, select-word,
\* submit-guess, draw-update and chat-message from any connection and every
\* pending callback leave it GAME_OVER.
C20_GameOverIsTerminal ==
  \A c \in LiveCodes :
    gameStates[c].phase = "GAME_OVER" =>
      /\ \A socket \in Sockets :
           /\ phaseAfter(onStartGame(World, socket).W, c) = "GAME_OVER"
           /\ \A word \in WordChoices(World, c) :
                phaseAfter(onSelectWord(World, socket, word).W, c) = "GAME_OVER"
           /\ \A text \in GuessTexts(World, c) :
                phaseAfter(onSubmitGuess(World, socket, text).W, c) = "GAME_OVER"
           /\ \A canvasData \in Canvases :
                phaseAfter(onDrawUpdate(World, socket, canvasData).W, c) = "GAME_OVER"
           /\ \A text \in ChatTexts :
                phaseAfter(onChatMessage(World, socket, text).W, c) = "GAME_OVER"
      /\ \A t \in BagToSet(timers), ks \in Draws :
           phaseAfter(fire(World, t, ks), c) = "GAME_OVER"

memberIds(room) == [i \in 1..Len(room.players) |-> room.players[i].id]

\* C21: restart-game from a connection of a room gives the room a game state
\* with phase ROOM_LOBBY, round 1, drawer index 0, no word, no candidates, an
\* empty chat log, no canvas and no used words, sets the score of every member
\* to 0 and the guess flag to false and the status to WAITING; the room stays
\* in the registry with the same members in the same order and the same host,
\* and no other room and no connection mapping changes.
C21_RestartReinitializes ==
  \A socket \in Sockets :
    LET c == roomOf(World, socket)
        r == onRestartGame(World, socket)
    IN  c \in DOMAIN rooms =>
          /\ r.success
          /\ c \in DOMAIN r.W.gameStates
          /\ LET s == r.W.gameStates[c] IN
               /\ s.phase = "ROOM_LOBBY" /\ s.currentRound = 1 /\ s.currentPlayerIndex = 0
               /\ s.totalRounds = TOTAL_ROUNDS
               /\ s.currentWord = NullWord /\ s.wordOptions = <<>> /\ s.messages = <<>>
               /\ s.canvasData = Null /\ s.usedWords = <<>>
          /\ DOMAIN r.W.rooms = DOMAIN rooms
          /\ \A d \in DOMAIN rooms \ {c} :
               r.W.rooms[d] = rooms[d] /\ MapGet(r.W.gameStates, d) = MapGet(gameStates, d)
          /\ LET room == r.W.rooms[c] IN
               /\ room.status = "WAITING"
               /\ memberIds(room) = memberIds(rooms[c])
               /\ room.hostId = rooms[c].hostId
               /\ room.id = rooms[c].id /\ room.isPrivate = rooms[c].isPrivate
               /\ room.password = rooms[c].password /\ room.maxPlayers = rooms[c].maxPlayers
               /\ \A i \in 1..Len(room.players) :
                    room.players[i].score = 0 /\ ~room.players[i].hasGuessedCorrectly
          /\ r.W.socketToRoom = socketToRoom
          /\ r.W.socketToPlayer = socketToPlayer

\* a room was restarted in a turn in which a guess had scored: it is in the
\* lobby again while the callback of the early end is pending
C21_Restarted ==
  \E c \in LiveCodes :
    /\ gameStates[c].phase = "ROOM_LOBBY"
    /\ rooms[c].status = "WAITING"
    /\ Len(rooms[c].players) >= 2
    /\ \E t \in BagToSet(timers) : t.code = c /\ t.kind = "earlyEnd"

\* C22: the round number of a room changes only in a step from ROUND_END to
\* ROUND_START, and then by exactly one; a step that ends a round leads to
\* GAME_OVER when currentRound >= totalRounds and to ROUND_END otherwise, and
\* in ROUND_END the callback of the next round is pending, due within 8 s.
C22_RoundProgression ==
  [][\A c \in DOMAIN gameStates \cap DOMAIN gameStates' :
       LET s == gameStates[c]
           n == gameStates'[c]
       IN  /\ n.currentRound # s.currentRound =>
                /\ s.phase = "ROUND_END" /\ n.phase = "ROUND_START"
                /\ n.currentRound = s.currentRound + 1
           /\ (n.phase \in {"ROUND_END", "GAME_OVER"} /\ s.phase \notin {"ROUND_END", "GAME_OVER"}) =>
                /\ n.phase = "GAME_OVER" <=> s.currentRound >= s.totalRounds
                /\ n.phase = "ROUND_END" =>
                     \E t \in BagToSet(timers') :
                       t.kind = "nextRound" /\ t.code = c /\ t.rem = ROUND_END_DELAY
           /\ (s.phase = "ROUND_END" /\ n.phase # "ROUND_END") =>
                n.phase = "ROUND_START" /\ n.currentRound = s.currentRound + 1
    ]_vars

idsOf(room) == {room.players[i].id : i \in 1..Len(room.players)}

\* C23: a join-room of a player who is not a member of the room fails with
\* 'Room is full' when the room has maxPlayers members and with 'Game already
\* in progress' when its status is PLAYING, and changes nothing; no room has
\* more than 8 members, and no step adds an id to the member list of a room
\* whose status is PLAYING.
C23_JoinRespectsCapacityAndStatus ==
  /\ [](\A c \in DOMAIN rooms :
          /\ Len(rooms[c].players) <= DEFAULT_MAX_PLAYERS
          /\ \A i \in 1..Len(FullSocketIds) :
               LET r == onJoinRoom(World, FullSocketIds[i], c, Null, NewPlayer(FullPlayerIds[i]))
               IN  FullPlayerIds[i] \notin idsOf(rooms[c]) =>
                     /\ Len(rooms[c].players) >= rooms[c].maxPlayers =>
                          ~r.success /\ r.error = "Room is full" /\ r.W = World
                     /\ (rooms[c].status = "PLAYING" /\ Len(rooms[c].players) < rooms[c].maxPlayers) =>
                          ~r.success /\ r.error = "Game already in progress" /\ r.W = World)
  /\ [][\A c \in DOMAIN rooms \cap DOMAIN rooms' :
          rooms[c].status = "PLAYING" => idsOf(rooms'[c]) \subseteq idsOf(rooms[c])]_vars

\* a full room is playing while a ninth connection stays outside
C23_FullAndPlaying ==
  \E c \in DOMAIN rooms :
    /\ Len(rooms[c].players) = DEFAULT_MAX_PLAYERS
    /\ rooms[c].status = "PLAYING"
    /\ \E i \in 1..Len(FullSocketIds) : FullSocketIds[i] \notin DOMAIN socketToRoom

hasPassword(room) == room.isPrivate /\ room.password \notin {Null, ""}

\* C24: a join-room to a private room that has a password passes the password
\* check exactly when the supplied password is the room's password, character
\* by character; a join that fails the check changes no room and no
\* connection mapping; a room that is public or has no password never answers
\* 'Incorrect password', whatever password is supplied, and lets a player into
\* a waiting room that is not full.
C24_PasswordGate ==
  \A c \in DOMAIN rooms, i \in 1..NumJoiners, password \in Passwords :
    LET room == rooms[c]
        r == onJoinRoom(World, SocketIds[i], c, password, NewPlayer(PlayerIds[i]))
        admits == room.status = "WAITING" /\ Len(room.players) < room.maxPlayers
    IN  /\ (r.error = "Incorrect password") <=> (hasPassword(room) /\ password # room.password)
        /\ r.error = "Incorrect password" =>
             /\ ~r.success
             /\ r.W.rooms = rooms
             /\ r.W.socketToPlayer = socketToPlayer
             /\ r.W.socketToRoom = socketToRoom
             /\ r.W.gameStates = gameStates
        /\ (admits /\ r.error # "Incorrect password") =>
             r.success /\ PlayerIds[i] \in idsOf(r.W.rooms[c])

\* a second member is in a private room with a password, a third connection
\* is outside
C24_JoinedWithPassword ==
  \E c \in DOMAIN rooms :
    /\ hasPassword(rooms[c])
    /\ Len(rooms[c].players) = 2
    /\ \E i \in 1..NumJoiners : SocketIds[i] \notin DOMAIN socketToRoom

without(ps, id) == FilterIdx(ps, {i \in 1..Len(ps) : ps[i].id # id}, 1)

\* C25: for a connection that is in a room, leave-room, disconnect, and
\* leave-room followed by disconnect all give the same memory: the player of
\* the connection is taken out of the member list once (the other members
\* keep their order; the room and its game state go when nobody is left), the
\* entries of the connection are gone, and the disconnect after the leave
\* changes nothing.  For a connection that is in no room, both do nothing.
C25_RemovedOnce ==
  \A socket \in Sockets :
    LET c == roomOf(World, socket)
        p == playerOf(World, socket)
        left == onLeaveRoom(World, socket).W
        dropped == onDisconnect(World, socket).W
        leftThenDropped == onDisconnect(left, socket).W
    IN  IF c = Null \/ p = Null THEN left = World /\ dropped = World
        ELSE /\ dropped = left
             /\ leftThenDropped = left
             /\ onLeaveRoom(left, socket).W = left
             /\ socket \notin DOMAIN left.socketToRoom
             /\ socket \notin DOMAIN left.socketToPlayer
             /\ c \in DOMAIN rooms =>
                  /\ Cardinality({i \in 1..Len(rooms[c].players) : rooms[c].players[i].id = p}) = 1
                  /\ IF Len(rooms[c].players) = 1
                     THEN c \notin DOMAIN left.rooms /\ c \notin DOMAIN left.gameStates
                     ELSE /\ c \in DOMAIN left.rooms
                          /\ memberIds(left.rooms[c]) = memberIds([players |-> without(rooms[c].players, p)])
             /\ \A d \in DOMAIN rooms \ {c} : d \in DOMAIN left.rooms /\ left.rooms[d] = rooms[d]

\* a member has left a room in the middle of its game and the other is still in
C25_LeftDuringGame ==
  \E c \in DOMAIN rooms :
    /\ rooms[c].status = "PLAYING"
    /\ Len(rooms[c].players) = 1
    /\ \E socket \in Sockets : socket \notin DOMAIN socketToRoom

available(round, excludeWords) ==
  {w \in Range(wordPool(round)) : w.word \notin Range(excludeWords)}

\* C26: for the round and the exclusion list of every state and for every
\* draw, the options that generateWordOptions returns are at most 3, no two
\* of them are the same word, and they hold a word of each category of which
\* the pool without the excluded words has a word.
C26_OptionsDistinctByCategory ==
  \A c \in DOMAIN gameStates, ks \in Draws :
    LET round == gameStates[c].currentRound
        excludeWords == gameStates[c].usedWords
        gen == generateWordOptions(round, excludeWords, ks)
    IN  ~gen.hang =>
          /\ Len(gen.words) <= 3
          /\ \A i, j \in 1..Len(gen.words) : i # j => gen.words[i].word # gen.words[j].word
          /\ \A category \in {"ACTION", "THING", "PLACE"} :
               (\E w \in available(round, excludeWords) : w.category = category)
                 => \E i \in 1..Len(gen.words) : gen.words[i].category = category

wordsOfPool(round) == {wordPool(round)[i].word : i \in 1..Len(wordPool(round))}

\* C27: the used words of a room hold no word twice, unless no word of the
\* round's pool was left when the later one was added; and no word of the pool
\* of round 1 is in the pool of round 3.
C27_NoWordUsedTwice ==
  /\ wordsOfPool(1) \cap wordsOfPool(3) = {}
  /\ \A c \in DOMAIN gameStates :
       LET used == gameStates[c].usedWords IN
       \A i, j \in 1..Len(used) :
         (i < j /\ used[i] = used[j]) =>
           available(gameStates[c].currentRound, SubSeq(used, 1, j - 1)) = {}

\* the positions of the word whose alphanumeric character is on display
shown(word, masked) ==
  {i \in 1..Len(word) : IsAlphanumeric(word[i]) /\ masked[2 * i - 1] = word[i]}

alphanumerics(word) == {i \in 1..Len(word) : IsAlphanumeric(word[i])}

\* C28: the display of the current word has one cell for each character; a
\* character that is not alphanumeric is shown as it is; before 30 s have
\* elapsed no alphanumeric character is shown, from 30 s on exactly the first
\* alphanumeric character, and from 60 s on, in a word of 4 or more
\* characters, the middle character in addition.
C28_MaskedWord ==
  \A c \in DOMAIN gameStates :
    gameStates[c].currentWord # NullWord /\ gameStates[c].currentWord.word \in DOMAIN MaskWords =>
      LET word == MaskWords[gameStates[c].currentWord.word]
          elapsed == TURN_DURATION_SECONDS - gameStates[c].timeLeft
          masked == getMaskedWord(word, gameStates[c].timeLeft)
          first == {i \in alphanumerics(word) : \A j \in alphanumerics(word) : i <= j}
          middle == {Len(word) \div 2 + 1} \cap alphanumerics(word)
      IN  /\ Len(masked) = 2 * Len(word) - 1
          /\ \A i \in 1..Len(word) :
               /\ ~IsAlphanumeric(word[i]) => masked[2 * i - 1] = word[i]
               /\ IsAlphanumeric(word[i]) => masked[2 * i - 1] \in {word[i], "_"}
          /\ elapsed < 30 => shown(word, masked) = {}
          /\ (elapsed >= 30 /\ ~(elapsed >= 60 /\ Len(word) >= 4)) => shown(word, masked) = first
          /\ (elapsed >= 60 /\ Len(word) >= 4) => shown(word, masked) = first \cup middle

pendingOf(B, kind, roomCode) ==
  BagCardinality([t \in {x \in BagToSet(B) : x.kind = kind /\ x.code = roomCode}
                    |-> CopiesIn(t, B)])

\* C29: a turn is advanced once.  A step that starts a turn (it offers words)
\* starts drawer 0 from ROUND_START or the drawer after the current one from
\* TURN_END; a step that processes the end of a round (it schedules the next
\* round or enters GAME_OVER) is taken from TURN_END, and no second callback
\* of the next round is pending.
C29_OneAdvancePerTurn ==
  [][\A c \in DOMAIN gameStates \cap DOMAIN gameStates' :
       LET s == gameStates[c]
           n == gameStates'[c]
       IN  /\ (n.usedWords # s.usedWords /\ n.usedWords # <<>>) =>
                \/ s.phase = "ROUND_START" /\ n.currentPlayerIndex = 0
                \/ s.phase = "TURN_END" /\ n.currentPlayerIndex = s.currentPlayerIndex + 1
           /\ (\/ pendingOf(timers', "nextRound", c) > pendingOf(timers, "nextRound", c)
               \/ n.phase = "GAME_OVER" /\ s.phase # "GAME_OVER") =>
                /\ s.phase = "TURN_END"
                /\ pendingOf(timers', "nextRound", c) <= 1
    ]_vars

\* C30: while a room is in ROOM_LOBBY, no pending callback of the room, when
\* it runs, changes the phase, the chat log, the drawer index or the round of
\* the room's game state.
C30_LobbyIgnoresOldCallbacks ==
  \A c \in LiveCodes :
    gameStates[c].phase = "ROOM_LOBBY" =>
      \A t \in BagToSet(timers), ks \in Draws :
        t.code = c =>
          LET after == fire(World, t, ks).gameStates[c]
          IN  /\ after.phase = gameStates[c].phase
              /\ after.messages = gameStates[c].messages
              /\ after.currentPlayerIndex = gameStates[c].currentPlayerIndex
              /\ after.currentRound = gameStates[c].currentRound

pendingTasks(roomCode) ==
  BagCardinality([t \in {x \in BagToSet(timers) : x.code = roomCode} |-> CopiesIn(t, timers)])

\* C31: a room has at most one pending scheduled task, the countdown or one
\* delayed transition.
C31_OneTaskPerRoom == \A c \in RoomCodes : pendingTasks(c) <= 1

\* C32: no task is pending for a room that is not in the registry (the tasks
\* of a room are cancelled when it is deleted), and the run of a callback
\* changes no room and no game state of another room.
C32_DeletionCancelsTasks ==
  \A t \in BagToSet(timers) :
    /\ t.code \in DOMAIN rooms
    /\ \A ks \in Draws :
         LET after == fire(World, t, ks)
         IN  \A c \in DOMAIN rooms \ {t.code} :
               /\ c \in DOMAIN after.rooms /\ after.rooms[c] = rooms[c]
               /\ MapGet(after.gameStates, c) = MapGet(gameStates, c)

\* C33: the start of the turn of any member of a room (handleNextTurn with an
\* index of the member list) sets every guess flag to false, clears the
\* current word, the canvas and the chat log, sets the drawer index, offers
\* candidates that were not used before, appends them to the used words and
\* ends in WORD_SELECTION; the members, their order and their scores, the round
\* and the rest of the memory stay as they are (in a running server process).
C33_TurnStart ==
  \A c \in IF proc = "running" THEN LiveCodes ELSE {}, ks \in Draws :
    \A playerIndex \in 0..(Len(rooms[c].players) - 1) :
      LET after == handleNextTurn(World, c, playerIndex, ks)
          s == after.gameStates[c]
          ps == after.rooms[c].players
      IN  /\ after.proc = "running"
          /\ s.phase = "WORD_SELECTION"
          /\ s.currentPlayerIndex = playerIndex
          /\ s.currentWord = NullWord /\ s.canvasData = Null /\ s.messages = <<>>
          /\ Len(s.wordOptions) \in 1..3
          /\ \A i \in 1..Len(s.wordOptions) :
               s.wordOptions[i].word \notin Range(gameStates[c].usedWords)
          /\ s.usedWords = gameStates[c].usedWords
                             \o [i \in 1..Len(s.wordOptions) |-> s.wordOptions[i].word]
          /\ s.currentRound = gameStates[c].currentRound
          /\ s.timeLeft = gameStates[c].timeLeft
          /\ Len(ps) = Len(rooms[c].players)
          /\ \A i \in 1..Len(ps) :
               /\ ps[i].id = rooms[c].players[i].id
               /\ ps[i].score = rooms[c].players[i].score
               /\ ~ps[i].hasGuessedCorrectly
          /\ after.rooms[c].hostId = rooms[c].hostId
          /\ after.rooms[c].status = rooms[c].status
          /\ after.timers = timers

\* the second turn of a round has started after a guess scored in the first
C33_SecondTurnStarted ==
  \E c \in LiveCodes :
    /\ gameStates[c].phase = "WORD_SELECTION"
    /\ gameStates[c].currentPlayerIndex = 1
    /\ Len(gameStates[c].usedWords) > 3
    /\ \E i \in 1..Len(rooms[c].players) : rooms[c].players[i].score > 0
    /\ \A i \in 1..Len(rooms[c].players) : ~rooms[c].players[i].hasGuessedCorrectly

TurnPhases == {"TURN_START", "WORD_SELECTION", "DRAWING", "TURN_END"}

\* the members listed after the drawer index: they have not drawn in this round
toDraw(room, state) ==
  {room.players[i].id : i \in (state.currentPlayerIndex + 2)..Len(room.players)}

\* C34: in a round every member draws once, in list order.  In a step within
\* a round, a member who is listed after the drawer and stays in the room is
\* still listed after the drawer, or is the first of them and becomes the
\* drawer of a turn that starts in this step; and the round ends only when no
\* member is left to draw.
C34_EveryMemberDraws ==
  [][\A c \in LiveCodes :
       (c \in DOMAIN rooms' /\ c \in DOMAIN gameStates' /\ gameStates[c].phase \in TurnPhases) =>
         LET room == rooms'[c]
             state == gameStates'[c]
             waiting == {id \in toDraw(rooms[c], gameStates[c]) :
                           \E i \in 1..Len(room.players) : room.players[i].id = id}
         IN  /\ state.phase \in {"ROUND_END", "GAME_OVER"} => waiting = {}
             /\ state.phase \in TurnPhases =>
                  \A id \in waiting :
                    \/ id \in toDraw(room, state)
                    \/ /\ gameStates[c].phase = "TURN_END"
                       /\ state.phase = "WORD_SELECTION"
                       /\ room.players[state.currentPlayerIndex + 1].id = id
                       /\ rooms[c].players[gameStates[c].currentPlayerIndex + 2].id = id]_vars

\* C35: the remaining time of a room is between 0 and the turn duration; in
\* DRAWING it is positive and one countdown ticks for the room, a tick of
\* which takes one second off and, at zero, moves the room to TURN_END; in
\* TURN_END no countdown ticks for the room.
C35_Countdown ==
  \A c \in LiveCodes :
    /\ gameStates[c].timeLeft \in 0..TURN_DURATION_SECONDS
    /\ gameStates[c].phase = "TURN_END" => pendingOf(timers, "interval", c) = 0
    /\ gameStates[c].phase = "DRAWING" =>
         /\ gameStates[c].timeLeft >= 1
         /\ pendingOf(timers, "interval", c) = 1
         /\ \A t \in BagToSet(timers) :
              (t.kind = "interval" /\ t.code = c /\ proc = "running") =>
                LET after == fire(World, t, <<0, 0, 0, 0, 0>>).gameStates[c]
                IN  /\ after.timeLeft = gameStates[c].timeLeft - 1
                    /\ after.phase = IF after.timeLeft = 0 THEN "TURN_END" ELSE "DRAWING"

\* C36: a started game goes on to GAME_OVER or to the deletion of the room: in
\* every phase of a game in progress a callback is pending for the room, or
\* the room waits in WORD_SELECTION for the member at the drawer index; no
\* leave puts the room in a phase that nothing ends.
C36_GameGoesOn ==
  \A c \in LiveCodes :
    (proc = "running" /\ gameStates[c].phase \notin {"ROOM_LOBBY", "GAME_OVER"}) =>
      \/ pendingTasks(c) > 0
      \/ gameStates[c].phase = "WORD_SELECTION" /\ currentDrawer(World, c) # Null

\* C37: the round number of a game is between 1 and totalRounds, and it
\* changes only by one, from a round that has ended (ROUND_END) to the start
\* of the next (ROUND_START), or back to 1 when a game starts.
C37_RoundsInOrder ==
  /\ [](\A c \in DOMAIN gameStates :
          gameStates[c].currentRound \in 1..gameStates[c].totalRounds)
  /\ [][\A c \in DOMAIN gameStates \cap DOMAIN gameStates' :
          gameStates'[c].currentRound # gameStates[c].currentRound =>
            \/ /\ gameStates'[c].currentRound = 1
               /\ gameStates[c].phase \in {"ROOM_LOBBY", "GAME_OVER"}
            \/ /\ gameStates'[c].currentRound = gameStates[c].currentRound + 1
               /\ gameStates[c].phase = "ROUND_END"
               /\ gameStates'[c].phase = "ROUND_START"]_vars

\* C38: the status of a room is WAITING exactly when the phase of its game is
\* ROOM_LOBBY, and PLAYING in every other phase.
C38_StatusFollowsPhase ==
  \A c \in LiveCodes :
    /\ rooms[c].status \in {"WAITING", "PLAYING"}
    /\ rooms[c].status = "WAITING" <=> gameStates[c].phase = "ROOM_LOBBY"

\* C39: every member of every room is backed by a connection that is mapped
\* to the member's player id and to the room.
C39_NoGhostMembers ==
  \A c \in DOMAIN rooms :
    \A i \in 1..Len(rooms[c].players) :
      \E socket \in DOMAIN socketToRoom :
        /\ socketToRoom[socket] = c
        /\ playerOf(World, socket) = rooms[c].players[i].id

\* C40: for the round and the exclusion list of every state and for every
\* draw, generateWordOptions returns; and when the pool of the round without
\* the excluded words holds at most three distinct words, it returns exactly
\* those words.
C40_GenerateTerminates ==
  \A c \in DOMAIN gameStates, ks \in Draws :
    LET round == gameStates[c].currentRound
        excludeWords == gameStates[c].usedWords
        gen == generateWordOptions(round, excludeWords, ks)
        left == {w.word : w \in available(round, excludeWords)}
    IN  /\ ~gen.hang
        /\ Cardinality(left) <= 3 =>
             {gen.words[i].word : i \in 1..Len(gen.words)} = left

====
